---- MODULE Spec2Model ----
(***************************************************************************)
(* A model of janusdoc's document embedding and semantic retrieval engine  *)
(* (src/src/lib/embeddings.ts): the retriever searchSimilarDocs with the    *)
(* similarity scorer cosineSimilarity, and the chunker chunkText.           *)
(*                                                                         *)
(* Numbers.  The code computes similarities in IEEE doubles.  The model     *)
(* keeps the exact real value of dot / (sqrt(normA) * sqrt(normB)) for      *)
(* integer vectors, as a record [sgn, num, den] that stands for             *)
(* sgn * sqrt(num / den) with num/den in lowest terms, so that equality     *)
(* and order of similarities are decided exactly.  Floating-point rounding  *)
(* is outside the model.                                                    *)
(***************************************************************************)
EXTENDS Integers, Sequences, FiniteSets, TLC

VARIABLES
    \* ---- searchSimilarDocs -------------------------------------------
    queryEmbedding,   \* the query vector
    embeddedDocs,     \* the index: a sequence of [path, chunks]
    topNArg,          \* the topN argument: <<>> when omitted, else <<n>>
    thresholdArg,     \* the threshold argument: <<>> when omitted, else <<r>>
    searchPc,         \* "call" | "returned" | "threw" | "idle"
    kept,             \* the local `results` after the scoring loop
    deduped,          \* the local `deduped` after the dedup loop
    searchResults,    \* the value returned
    \* ---- chunkText ----------------------------------------------------
    text,             \* the text: a sequence of one-character strings
    chunkSize,
    overlap,
    chunkPc,          \* "call" | "loop" | "returned" | "idle"
    words,            \* the local `words`
    start,            \* the local `start`
    windows,          \* the <<start, end>> of every window pushed so far
    chunks,           \* the local `chunks`; the value returned at "returned"
    \* ---- cosineSimilarity ---------------------------------------------
    cosA,             \* the argument a
    cosB,             \* the argument b
    cosPc,            \* "call" | "returned" | "threw" | "idle"
    cosResult,        \* what the call gave: cosineSimilarity(cosA, cosB)
    \* ---- the index: init's build, saveEmbeddings, loadEmbeddings --------
    initDocs,         \* the documents init scanned: a sequence of [path, content]
    initPc,           \* "idle" | "embedding" | "saving" | "done" | "failed"
                      \* | "skipped" | "off"
    builtDocs,        \* the local `embeddedDocs` of generateDocEmbeddings
    provided,         \* the vectors the provider returned, one batch per document
    providerError,    \* <<>>, or <<e>>: the error e the provider raised
    initError,        \* <<>>, or <<e>>: the error e generateDocEmbeddings threw
    embeddingsFile,   \* .janusdoc/embeddings.json: [exists, data]
    lastSaved,        \* <<>>, or <<d>>: the argument d of the last saveEmbeddings
    replaced,         \* the last saveEmbeddings came after one of other documents
    loadPc,           \* "idle" | "returned" | "threw"
    loadResult,       \* what loadEmbeddings returned or threw
    \* ---- filterCodeFiles, filterDocFiles -----------------------------
    changedFiles,     \* the argument: a sequence of [path, additions, deletions]
    codeFiltered,     \* <<>>, or <<r>>: r is what filterCodeFiles returned
    docFiltered,      \* <<>>, or <<r>>: r is what filterDocFiles returned
    \* ---- analyzeChanges ---------------------------------------------
    anChangedFiles,   \* the argument changedFiles
    anDocs,           \* the argument docs: a sequence of [path, content]
    anPc,             \* "call" | "returned" | "threw" | "idle"
    anAnswer,         \* <<>>, or <<a>>: a is what generateObject answered
    anResult,         \* the suggestions returned
    \* ---- runCommand --------------------------------------------------
    dryRun,           \* options.dryRun
    runPc,            \* the stage to run next, or "done" | "threw" | "idle"
    stagesRun,        \* the stages that have run, in order
    calls,            \* the calls made to the outside and to the index, in order
    runConfig,        \* <<>>, or <<c>>: c is the config loadContext loaded
    runCodeFiles,     \* the local codeFiles of getChanges
    allDocs,          \* what scanDocs scanned
    runSearch,        \* <<>>, or <<r>>: r is what searchSimilarDocs returned
    relevantDocs,     \* the local relevantDocs of findRelevantDocs
    runSuggestions    \* result.suggestions of analyze

searchVars == <<queryEmbedding, embeddedDocs, topNArg, thresholdArg, searchPc,
                kept, deduped, searchResults>>
chunkVars == <<text, chunkSize, overlap, chunkPc, words, start, windows, chunks>>
cosineVars == <<cosA, cosB, cosPc, cosResult>>
indexVars == <<initDocs, initPc, builtDocs, provided, providerError, initError,
               embeddingsFile, lastSaved, replaced, loadPc, loadResult>>
filterVars == <<changedFiles, codeFiltered, docFiltered>>
analyzeVars == <<anChangedFiles, anDocs, anPc, anAnswer, anResult>>
runVars == <<dryRun, runPc, stagesRun, calls, runConfig, runCodeFiles, allDocs,
             runSearch, relevantDocs, runSuggestions>>
laterVars == <<filterVars, analyzeVars, runVars>>
vars == <<searchVars, chunkVars, cosineVars, indexVars, laterVars>>

(***************************************************************************)
(* Bounds of the model.                                                    *)
(***************************************************************************)
MaxIndexChunks == 3   \* chunks in an index, over all its documents
MaxLen == 5           \* characters in a text
MaxDim == 2           \* components of an argument of cosineSimilarity

(***************************************************************************)
(* Program constants.                                                      *)
(***************************************************************************)
DEFAULT_TOP_N == 5
DEFAULT_SIMILARITY_THRESHOLD == <<1, 2>>   \* 0.5, as the rational 1/2

(***************************************************************************)
(* Exact similarities.                                                     *)
(***************************************************************************)
Abs(n) == IF n < 0 THEN -n ELSE n
Sign(n) == IF n < 0 THEN -1 ELSE IF n = 0 THEN 0 ELSE 1
Min(a, b) == IF a <= b THEN a ELSE b
Max(a, b) == IF a >= b THEN a ELSE b

RECURSIVE Gcd(_, _)
Gcd(a, b) == IF b = 0 THEN a ELSE Gcd(b, a % b)

\* sgn * sqrt(num / den) in lowest terms; zero is [sgn |-> 0, num |-> 0, den |-> 1].
Root(sgn, num, den) ==
    IF sgn = 0 \/ num = 0
    THEN [sgn |-> 0, num |-> 0, den |-> 1]
    ELSE LET g == Gcd(num, den)
         IN  [sgn |-> sgn, num |-> num \div g, den |-> den \div g]

\* The number p/q (q > 0) as a similarity value.
Rational(r) == Root(Sign(r[1]), r[1] * r[1], r[2] * r[2])

\* s >= t on the values the records stand for: the code's `>=` on numbers.
SimGe(s, t) ==
    IF s.sgn # t.sgn THEN s.sgn > t.sgn
    ELSE IF s.sgn = 0 THEN TRUE
    ELSE IF s.sgn = 1 THEN s.num * t.den >= t.num * s.den
    ELSE s.num * t.den <= t.num * s.den

SimGt(s, t) == SimGe(s, t) /\ s # t

(***************************************************************************)
(* cosineSimilarity(a, b): [threw |-> TRUE] when the lengths differ, else   *)
(* [threw |-> FALSE, value |-> dotProduct / magnitude], 0 when the          *)
(* magnitude is 0.                                                          *)
(***************************************************************************)
RECURSIVE DotProduct(_, _, _)
DotProduct(a, b, i) ==
    IF i = 0 THEN 0 ELSE DotProduct(a, b, i - 1) + a[i] * b[i]

\* What `throw new Error("Vectors must have the same length")` gives.
DimensionMismatch == [threw |-> TRUE, message |-> "Vectors must have the same length"]

\* 0 / 0, the NaN a division by a zero magnitude would give.
NotANumber == [sgn |-> 0, num |-> 0, den |-> 0]

\* Mutants of cosineSimilarity: the length check left out (the shorter length
\* is used), the zero-magnitude test left out, the division by normA alone,
\* and the square roots left out.
cosineSimilarity_NoLengthCheck(a, b) ==
    LET n == Min(Len(a), Len(b))
        dotProduct == DotProduct(a, b, n)
        normA == DotProduct(a, a, n)
        normB == DotProduct(b, b, n)
    IN  IF normA * normB = 0
        THEN [threw |-> FALSE, value |-> Root(0, 0, 1)]
        ELSE [threw |-> FALSE,
              value |-> Root(Sign(dotProduct), dotProduct * dotProduct, normA * normB)]

cosineSimilarity_NoZeroGuard(a, b) ==
    IF Len(a) # Len(b)
    THEN DimensionMismatch
    ELSE LET dotProduct == DotProduct(a, b, Len(a))
             normA == DotProduct(a, a, Len(a))
             normB == DotProduct(b, b, Len(b))
         IN  IF normA * normB = 0
             THEN [threw |-> FALSE, value |-> NotANumber]
             ELSE [threw |-> FALSE,
                   value |-> Root(Sign(dotProduct), dotProduct * dotProduct,
                                  normA * normB)]

cosineSimilarity_OneNorm(a, b) ==
    IF Len(a) # Len(b)
    THEN DimensionMismatch
    ELSE LET dotProduct == DotProduct(a, b, Len(a))
             normA == DotProduct(a, a, Len(a))
             normB == DotProduct(b, b, Len(b))
         IN  IF normA * normB = 0
             THEN [threw |-> FALSE, value |-> Root(0, 0, 1)]
             ELSE [threw |-> FALSE,
                   value |-> Root(Sign(dotProduct), dotProduct * dotProduct,
                                  normA * normA)]

cosineSimilarity_NoSqrt(a, b) ==
    IF Len(a) # Len(b)
    THEN DimensionMismatch
    ELSE LET dotProduct == DotProduct(a, b, Len(a))
             normA == DotProduct(a, a, Len(a))
             normB == DotProduct(b, b, Len(b))
         IN  IF normA * normB = 0
             THEN [threw |-> FALSE, value |-> Root(0, 0, 1)]
             ELSE [threw |-> FALSE,
                   value |-> Root(Sign(dotProduct), dotProduct * dotProduct,
                                  (normA * normB) * (normA * normB))]

cosineSimilarity(a, b) ==
    IF Len(a) # Len(b)
    THEN DimensionMismatch
    ELSE LET dotProduct == DotProduct(a, b, Len(a))
             normA == DotProduct(a, a, Len(a))
             normB == DotProduct(b, b, Len(b))
         IN  IF normA * normB = 0
             THEN [threw |-> FALSE, value |-> Root(0, 0, 1)]
             ELSE [threw |-> FALSE,
                   value |-> Root(Sign(dotProduct), dotProduct * dotProduct,
                                  normA * normB)]

(***************************************************************************)
(* searchSimilarDocs, step by step.                                        *)
(***************************************************************************)
\* Every chunk of the index in the order the two nested loops visit them.
RECURSIVE AllChunks(_)
AllChunks(docs) ==
    IF docs = <<>> THEN <<>>
    ELSE [i \in 1..Len(Head(docs).chunks) |->
             [path |-> Head(docs).path,
              content |-> Head(docs).chunks[i].content,
              embedding |-> Head(docs).chunks[i].embedding]]
         \o AllChunks(Tail(docs))

\* Some call of cosineSimilarity in the scoring loop throws.
ScoringThrows(q, docs) ==
    \E i \in 1..Len(AllChunks(docs)) :
        cosineSimilarity(q, AllChunks(docs)[i].embedding).threw

\* Mutants of PassesThreshold: `>` for `>=`, and no test at all.
PassesThreshold_Strict(similarity, threshold) == SimGt(similarity, Rational(threshold))
PassesThreshold_Always(similarity, threshold) == TRUE

\* The test of the scoring loop: `similarity >= threshold`.
PassesThreshold(similarity, threshold) == SimGe(similarity, Rational(threshold))

\* The scoring loop: one result per chunk that passes the threshold.
ScoreChunks(q, docs, threshold) ==
    LET all == AllChunks(docs)
        scored == [i \in 1..Len(all) |->
                      [path |-> all[i].path,
                       content |-> all[i].content,
                       similarity |-> cosineSimilarity(q, all[i].embedding).value]]
    IN  SelectSeq(scored, LAMBDA r : PassesThreshold(r.similarity, threshold))

\* The comparator of results.sort: b.similarity - a.similarity, negative
\* (a before b) exactly when a.similarity > b.similarity.
ComesBefore(a, b) == SimGt(a.similarity, b.similarity)

\* Array.prototype.sort is stable: an element is placed after every element
\* already placed that does not come after it.
RECURSIVE InsertSorted(_, _)
InsertSorted(sorted, r) ==
    IF sorted = <<>> THEN <<r>>
    ELSE IF ComesBefore(r, Head(sorted)) THEN <<r>> \o sorted
    ELSE <<Head(sorted)>> \o InsertSorted(Tail(sorted), r)

\* Mutants of SortBySimilarity: no sort, and an ascending sort.
SortBySimilarity_None(results) == results

RECURSIVE InsertAscending(_, _)
InsertAscending(sorted, r) ==
    IF sorted = <<>> THEN <<r>>
    ELSE IF ComesBefore(Head(sorted), r) THEN <<r>> \o sorted
    ELSE <<Head(sorted)>> \o InsertAscending(Tail(sorted), r)

RECURSIVE SortBySimilarity_Ascending(_)
SortBySimilarity_Ascending(results) ==
    IF results = <<>> THEN <<>>
    ELSE InsertAscending(SortBySimilarity_Ascending(SubSeq(results, 1, Len(results) - 1)),
                         results[Len(results)])

RECURSIVE SortBySimilarity(_)
SortBySimilarity(results) ==
    IF results = <<>> THEN <<>>
    ELSE InsertSorted(SortBySimilarity(SubSeq(results, 1, Len(results) - 1)),
                      results[Len(results)])

\* The dedup loop: a result is pushed unless its path was seen before.
RECURSIVE DedupeFrom(_, _)
DedupeFrom(results, seen) ==
    IF results = <<>> THEN <<>>
    ELSE IF Head(results).path \in seen
         THEN DedupeFrom(Tail(results), seen)
         ELSE <<Head(results)>>
              \o DedupeFrom(Tail(results), seen \cup {Head(results).path})

\* Mutant of DedupeByPath: every result is pushed.
DedupeByPath_KeepAll(results) == results

DedupeByPath(results) == DedupeFrom(results, {})

\* Array.prototype.slice(from, to): a negative index counts from the end.
RelativeIndex(k, len) == IF k < 0 THEN Max(len + k, 0) ELSE Min(k, len)

Slice(s, from, to) ==
    LET f == RelativeIndex(from, Len(s))
        t == RelativeIndex(to, Len(s))
    IN  IF f >= t THEN <<>> ELSE SubSeq(s, f + 1, t)

\* Mutant of TakeTopN: the slice is left out.
TakeTopN_NoSlice(results, n) == results

\* Mutant of TakeTopN: the last n results, deduped.slice(length - n).
TakeTopN_FromEnd(results, n) == Slice(results, Len(results) - n, Len(results))

\* deduped.slice(0, topN)
TakeTopN(results, n) == Slice(results, 0, n)

\* The default parameter values.
TopNOf(arg) == IF arg = <<>> THEN DEFAULT_TOP_N ELSE arg[1]
ThresholdOf(arg) == IF arg = <<>> THEN DEFAULT_SIMILARITY_THRESHOLD ELSE arg[1]

topN == TopNOf(topNArg)
threshold == ThresholdOf(thresholdArg)

(***************************************************************************)
(* The inputs of a search.                                                 *)
(***************************************************************************)
Paths == {"a.md", "b.md"}
QueryVectors == {<<1, 0>>, <<-1, 1>>}
ChunkVectors == {<<1, 0>>, <<1, 1>>, <<0, 1>>, <<1>>}
TopNArgs == {<<>>, <<-1>>, <<0>>, <<1>>, <<2>>}
ThresholdArgs == {<<>>, <<<<0, 1>>>>, <<<<1, 1>>>>, <<<<11, 10>>>>}

\* Sequences of 1 to n vectors: chunkText gives every document a chunk.
VectorSeqs(n) == UNION {[1..k -> ChunkVectors] : k \in 1..n}

\* Indexes of at most c chunks over all documents, chunk contents left out.
RECURSIVE Shapes(_)
Shapes(c) ==
    IF c = 0 THEN {<<>>}
    ELSE {<<>>} \cup
         UNION {{<<[path |-> p, vectors |-> vs]>> \o rest : rest \in Shapes(c - Len(vs))} :
                    p \in Paths, vs \in VectorSeqs(c)}

\* The content of chunk j of document i: distinct for distinct chunks.
ContentAt(i, j) == <<"chunk", i, j>>

IndexOf(shape) ==
    [i \in 1..Len(shape) |->
        [path |-> shape[i].path,
         chunks |-> [j \in 1..Len(shape[i].vectors) |->
                        [content |-> ContentAt(i, j),
                         embedding |-> shape[i].vectors[j]]]]]

Indexes == {IndexOf(s) : s \in Shapes(MaxIndexChunks)}

SearchIdle ==
    /\ queryEmbedding = <<>>
    /\ embeddedDocs = <<>>
    /\ topNArg = <<>>
    /\ thresholdArg = <<>>
    /\ searchPc = "idle"
    /\ kept = <<>>
    /\ deduped = <<>>
    /\ searchResults = <<>>

ChunkIdle ==
    /\ text = <<>>
    /\ chunkSize = 0
    /\ overlap = 0
    /\ chunkPc = "idle"
    /\ words = <<>>
    /\ start = 0
    /\ windows = <<>>
    /\ chunks = <<>>

CosineIdle ==
    /\ cosA = <<>>
    /\ cosB = <<>>
    /\ cosPc = "idle"
    /\ cosResult = <<>>

FilterIdle ==
    /\ changedFiles = <<>>
    /\ codeFiltered = <<>>
    /\ docFiltered = <<>>

AnalyzeIdle ==
    /\ anChangedFiles = <<>>
    /\ anDocs = <<>>
    /\ anPc = "idle"
    /\ anAnswer = <<>>
    /\ anResult = <<>>

RunIdle ==
    /\ dryRun = FALSE
    /\ runPc = "idle"
    /\ stagesRun = <<>>
    /\ calls = <<>>
    /\ runConfig = <<>>
    /\ runCodeFiles = <<>>
    /\ allDocs = <<>>
    /\ runSearch = <<>>
    /\ relevantDocs = <<>>
    /\ runSuggestions = <<>>

LaterIdle == FilterIdle /\ AnalyzeIdle /\ RunIdle

NoFile == [exists |-> FALSE, data |-> <<>>]

IndexIdle ==
    /\ initDocs = <<>>
    /\ initPc = "off"
    /\ builtDocs = <<>>
    /\ provided = <<>>
    /\ providerError = <<>>
    /\ initError = <<>>
    /\ embeddingsFile = NoFile
    /\ lastSaved = <<>>
    /\ replaced = FALSE
    /\ loadPc = "idle"
    /\ loadResult = <<>>

SearchInit ==
    /\ queryEmbedding \in QueryVectors
    /\ embeddedDocs \in Indexes
    /\ topNArg \in TopNArgs
    /\ thresholdArg \in ThresholdArgs
    /\ searchPc = "call"
    /\ kept = <<>>
    /\ deduped = <<>>
    /\ searchResults = <<>>
    /\ ChunkIdle
    /\ CosineIdle
    /\ IndexIdle
    /\ LaterIdle

\* searchSimilarDocs with a sort that reorders the documents of the index.
searchSimilarDocs_SortsIndex ==
    /\ searchPc = "call"
    /\ IF ScoringThrows(queryEmbedding, embeddedDocs)
       THEN /\ searchPc' = "threw"
            /\ UNCHANGED <<kept, deduped, searchResults>>
       ELSE LET results == ScoreChunks(queryEmbedding, embeddedDocs, threshold)
                unique == DedupeByPath(SortBySimilarity(results))
            IN  /\ kept' = results
                /\ deduped' = unique
                /\ searchResults' = TakeTopN(unique, topN)
                /\ searchPc' = "returned"
    /\ embeddedDocs' = [i \in 1..Len(embeddedDocs) |->
                            embeddedDocs[Len(embeddedDocs) + 1 - i]]
    /\ UNCHANGED <<queryEmbedding, topNArg, thresholdArg>>
    /\ UNCHANGED <<chunkVars, cosineVars, indexVars, laterVars>>

\* searchSimilarDocs(queryEmbedding, embeddedDocs, topN, threshold)
searchSimilarDocs ==
    /\ searchPc = "call"
    /\ IF ScoringThrows(queryEmbedding, embeddedDocs)
       THEN /\ searchPc' = "threw"
            /\ UNCHANGED <<kept, deduped, searchResults>>
       ELSE LET results == ScoreChunks(queryEmbedding, embeddedDocs, threshold)
                unique == DedupeByPath(SortBySimilarity(results))
            IN  /\ kept' = results
                /\ deduped' = unique
                /\ searchResults' = TakeTopN(unique, topN)
                /\ searchPc' = "returned"
    /\ UNCHANGED <<queryEmbedding, embeddedDocs, topNArg, thresholdArg>>
    /\ UNCHANGED <<chunkVars, cosineVars, indexVars, laterVars>>

\* The caller searches the same index again, with the same configuration
\* and the embedding of another change summary.
searchAgain ==
    /\ searchPc \in {"returned", "threw"}
    /\ queryEmbedding' \in QueryVectors
    /\ searchPc' = "call"
    /\ kept' = <<>>
    /\ deduped' = <<>>
    /\ searchResults' = <<>>
    /\ UNCHANGED <<embeddedDocs, topNArg, thresholdArg>>
    /\ UNCHANGED <<chunkVars, cosineVars, indexVars, laterVars>>

SearchNext == searchSimilarDocs \/ searchAgain

(***************************************************************************)
(* chunkText.  A text is a sequence of one-character strings; a word and a  *)
(* chunk are such sequences too.                                           *)
(***************************************************************************)
Whitespace == {" ", "\n"}
Alphabet == {"a", "b"} \cup Whitespace

\* text.split(/\s+/): the pieces between the maximal runs of whitespace.  A
\* text that starts or ends with whitespace has an empty first or last piece,
\* and the empty text has the one piece "".
RECURSIVE SplitFrom(_, _, _)
SplitFrom(t, piece, inRun) ==
    IF t = <<>> THEN <<piece>>
    ELSE IF Head(t) \in Whitespace
         THEN IF inRun
              THEN SplitFrom(Tail(t), piece, TRUE)
              ELSE <<piece>> \o SplitFrom(Tail(t), <<>>, TRUE)
         ELSE SplitFrom(Tail(t), Append(piece, Head(t)), FALSE)

SplitWhitespace(t) == SplitFrom(t, <<>>, FALSE)

\* ws.join(" ")
RECURSIVE JoinSpace(_)
JoinSpace(ws) ==
    IF ws = <<>> THEN <<>>
    ELSE IF Len(ws) = 1 THEN ws[1]
    ELSE ws[1] \o <<" ">> \o JoinSpace(Tail(ws))

\* Mutant of FitsOneChunk: `<` for `<=`.
FitsOneChunk_Strict(n, size) == n < size

\* words.length <= chunkSize
FitsOneChunk(n, size) == n <= size

\* Math.min(start + chunkSize, words.length)
WindowEnd(from, size, n) == Min(from + size, n)

\* Mutant of ReachedEnd: `>` for `>=`.
ReachedEnd_Strict(end, n) == end > n

\* end >= words.length
ReachedEnd(end, n) == end >= n

\* Mutants of NextStart: the overlap left out, and an off-by-one.
NextStart_NoOverlap(end, lap) == end
NextStart_OffByOne(end, lap) == end - lap - 1

\* Mutant of NextStart: a guard that keeps the window moving.
NextStart_Guarded(end, lap) == IF lap >= end THEN end ELSE end - lap

\* Mutant of NextStart: the overlap is added, start = end + overlap.
NextStart_Gap(end, lap) == end + lap

\* start = end - overlap
NextStart(end, lap) == end - lap

\* The inputs of chunkText.
Texts == UNION {[1..n -> Alphabet] : n \in 0..MaxLen}
ChunkSizes == {0, 1, 2, 3}
Overlaps == {-1, 0, 1, 2, 3}

\* A loop that never ends is followed for this many iterations.
MaxIter == MaxLen + 2

ChunkInit ==
    /\ text \in Texts
    /\ chunkSize \in ChunkSizes
    /\ overlap \in Overlaps
    /\ chunkPc = "call"
    /\ words = <<>>
    /\ start = 0
    /\ windows = <<>>
    /\ chunks = <<>>
    /\ SearchIdle
    /\ CosineIdle
    /\ IndexIdle
    /\ LaterIdle

\* chunkText up to the loop: the split, and the return of a short text.
chunkTextEnter ==
    /\ chunkPc = "call"
    /\ words' = SplitWhitespace(text)
    /\ IF FitsOneChunk(Len(words'), chunkSize)
       THEN /\ chunks' = <<text>>
            /\ chunkPc' = "returned"
       ELSE /\ chunks' = <<>>
            /\ chunkPc' = "loop"
    /\ start' = 0
    /\ UNCHANGED <<text, chunkSize, overlap, windows>>
    /\ UNCHANGED <<searchVars, cosineVars, indexVars, laterVars>>

\* One iteration of `while (start < words.length)`.
chunkTextIterate ==
    /\ chunkPc = "loop"
    /\ start < Len(words)
    /\ Len(chunks) < MaxIter
    /\ LET end == WindowEnd(start, chunkSize, Len(words))
       IN  /\ chunks' = Append(chunks, JoinSpace(Slice(words, start, end)))
           /\ windows' = Append(windows, <<start, end>>)
           /\ IF ReachedEnd(end, Len(words))
              THEN /\ chunkPc' = "returned"
                   /\ start' = start
              ELSE /\ chunkPc' = "loop"
                   /\ start' = NextStart(end, overlap)
    /\ UNCHANGED <<text, chunkSize, overlap, words>>
    /\ UNCHANGED <<searchVars, cosineVars, indexVars, laterVars>>

\* The loop condition fails: `return chunks`.
chunkTextExit ==
    /\ chunkPc = "loop"
    /\ ~(start < Len(words))
    /\ chunkPc' = "returned"
    /\ UNCHANGED <<text, chunkSize, overlap, words, start, windows, chunks>>
    /\ UNCHANGED <<searchVars, cosineVars, indexVars, laterVars>>

ChunkNext == chunkTextEnter \/ chunkTextIterate \/ chunkTextExit

SpecChunk == ChunkInit /\ [][ChunkNext]_vars

\* A call that has started runs on: the function is synchronous.
SpecChunkFair == SpecChunk /\ WF_vars(ChunkNext)


SpecSearch == SearchInit /\ [][SearchNext]_vars

(***************************************************************************)
(* cosineSimilarity called on its own.                                     *)
(***************************************************************************)
Components == {-2, -1, 0, 1, 2}
Vectors == UNION {[1..n -> Components] : n \in 0..MaxDim}

CosineInit ==
    /\ cosA \in Vectors
    /\ cosB \in Vectors
    /\ cosPc = "call"
    /\ cosResult = <<>>
    /\ SearchIdle
    /\ ChunkIdle
    /\ IndexIdle
    /\ LaterIdle

\* cosineSimilarity(cosA, cosB)
cosineSimilarityCall ==
    /\ cosPc = "call"
    /\ cosResult' = cosineSimilarity(cosA, cosB)
    /\ cosPc' = IF cosResult'.threw THEN "threw" ELSE "returned"
    /\ UNCHANGED <<cosA, cosB>>
    /\ UNCHANGED <<searchVars, chunkVars, indexVars, laterVars>>

CosineNext == cosineSimilarityCall

SpecCosine == CosineInit /\ [][CosineNext]_vars

(***************************************************************************)
(* chunkText as a function, as generateDocEmbeddings calls it.             *)
(***************************************************************************)
RECURSIVE ChunkLoop(_, _, _, _, _)
ChunkLoop(ws, size, lap, from, acc) ==
    IF ~(from < Len(ws))
    THEN acc
    ELSE LET end == WindowEnd(from, size, Len(ws))
             pushed == Append(acc, JoinSpace(Slice(ws, from, end)))
         IN  IF ReachedEnd(end, Len(ws))
             THEN pushed
             ELSE ChunkLoop(ws, size, lap, NextStart(end, lap), pushed)

chunkText(t, size, lap) ==
    LET ws == SplitWhitespace(t)
    IN  IF FitsOneChunk(Len(ws), size) THEN <<t>> ELSE ChunkLoop(ws, size, lap, 0, <<>>)

\* The source has CHUNK_SIZE = 500 and CHUNK_OVERLAP = 50 words; the model
\* keeps their order (0 < overlap < size) at the scale of its texts.
CHUNK_SIZE == 2
CHUNK_OVERLAP == 1

EMBEDDING_MODEL == "text-embedding-3-small"

(***************************************************************************)
(* JSON.stringify and JSON.parse of the embeddings store.  The file holds  *)
(* a sequence of tokens <<kind, value>>; commas and colons are left out.   *)
(***************************************************************************)
Punct(c) == <<"punct", c>>
Key(k) == <<"key", k>>
Str(v) == <<"string", v>>
Num(n) == <<"number", n>>

RECURSIVE ConcatAll(_)
ConcatAll(seqs) ==
    IF seqs = <<>> THEN <<>> ELSE Head(seqs) \o ConcatAll(Tail(seqs))

StringifyVector(v) ==
    <<Punct("[")>> \o [i \in 1..Len(v) |-> Num(v[i])] \o <<Punct("]")>>

StringifyChunk(c) ==
    <<Punct("{"), Key("content"), Str(c.content), Key("embedding")>>
        \o StringifyVector(c.embedding) \o <<Punct("}")>>

StringifyChunks(cs) ==
    <<Punct("[")>> \o ConcatAll([i \in 1..Len(cs) |-> StringifyChunk(cs[i])])
        \o <<Punct("]")>>

StringifyDoc(d) ==
    <<Punct("{"), Key("path"), Str(d.path), Key("chunks")>>
        \o StringifyChunks(d.chunks) \o <<Punct("}")>>

StringifyDocs(ds) ==
    <<Punct("[")>> \o ConcatAll([i \in 1..Len(ds) |-> StringifyDoc(ds[i])])
        \o <<Punct("]")>>

\* JSON.stringify(store)
JSONStringify(store) ==
    <<Punct("{"), Key("model"), Str(store.model),
      Key("generatedAt"), Str(store.generatedAt), Key("documents")>>
        \o StringifyDocs(store.documents) \o <<Punct("}")>>

\* A parse gives [ok, value, next]: next is the position after what was read.
ParseFails == [ok |-> FALSE, value |-> <<>>, next |-> 0]
Parsed(v, p) == [ok |-> TRUE, value |-> v, next |-> p]

At(ts, p) == IF p \in 1..Len(ts) THEN ts[p] ELSE <<"end", "">>
Is(tok, kind, v) == tok[1] = kind /\ tok[2] = v

RECURSIVE ParseNumbers(_, _, _)
ParseNumbers(ts, p, acc) ==
    LET tok == At(ts, p)
    IN  IF Is(tok, "punct", "]") THEN Parsed(acc, p + 1)
        ELSE IF tok[1] = "number" THEN ParseNumbers(ts, p + 1, Append(acc, tok[2]))
        ELSE ParseFails

ParseVector(ts, p) ==
    IF Is(At(ts, p), "punct", "[") THEN ParseNumbers(ts, p + 1, <<>>) ELSE ParseFails

ParseChunk(ts, p) ==
    IF /\ Is(At(ts, p), "punct", "{")
       /\ Is(At(ts, p + 1), "key", "content")
       /\ At(ts, p + 2)[1] = "string"
       /\ Is(At(ts, p + 3), "key", "embedding")
    THEN LET v == ParseVector(ts, p + 4)
         IN  IF v.ok /\ Is(At(ts, v.next), "punct", "}")
             THEN Parsed([content |-> At(ts, p + 2)[2], embedding |-> v.value],
                         v.next + 1)
             ELSE ParseFails
    ELSE ParseFails

RECURSIVE ParseChunksFrom(_, _, _)
ParseChunksFrom(ts, p, acc) ==
    IF Is(At(ts, p), "punct", "]") THEN Parsed(acc, p + 1)
    ELSE LET c == ParseChunk(ts, p)
         IN  IF c.ok THEN ParseChunksFrom(ts, c.next, Append(acc, c.value))
             ELSE ParseFails

ParseDoc(ts, p) ==
    IF /\ Is(At(ts, p), "punct", "{")
       /\ Is(At(ts, p + 1), "key", "path")
       /\ At(ts, p + 2)[1] = "string"
       /\ Is(At(ts, p + 3), "key", "chunks")
       /\ Is(At(ts, p + 4), "punct", "[")
    THEN LET cs == ParseChunksFrom(ts, p + 5, <<>>)
         IN  IF cs.ok /\ Is(At(ts, cs.next), "punct", "}")
             THEN Parsed([path |-> At(ts, p + 2)[2], chunks |-> cs.value],
                         cs.next + 1)
             ELSE ParseFails
    ELSE ParseFails

RECURSIVE ParseDocsFrom(_, _, _)
ParseDocsFrom(ts, p, acc) ==
    IF Is(At(ts, p), "punct", "]") THEN Parsed(acc, p + 1)
    ELSE LET d == ParseDoc(ts, p)
         IN  IF d.ok THEN ParseDocsFrom(ts, d.next, Append(acc, d.value))
             ELSE ParseFails

\* JSON.parse(content): the store, or ParseFails for the SyntaxError.
JSONParse(ts) ==
    IF /\ Is(At(ts, 1), "punct", "{")
       /\ Is(At(ts, 2), "key", "model")
       /\ At(ts, 3)[1] = "string"
       /\ Is(At(ts, 4), "key", "generatedAt")
       /\ At(ts, 5)[1] = "string"
       /\ Is(At(ts, 6), "key", "documents")
       /\ Is(At(ts, 7), "punct", "[")
    THEN LET ds == ParseDocsFrom(ts, 8, <<>>)
         IN  IF /\ ds.ok
                /\ Is(At(ts, ds.next), "punct", "}")
                /\ ds.next = Len(ts)
             THEN Parsed([model |-> At(ts, 3)[2], generatedAt |-> At(ts, 5)[2],
                          documents |-> ds.value], ds.next + 1)
             ELSE ParseFails
    ELSE ParseFails

(***************************************************************************)
(* Building, saving and loading the index: generateEmbeddingsAsset of      *)
(* init, with generateDocEmbeddings and saveEmbeddings, and loadEmbeddings.*)
(* The provider is outside the code: a call of it returns one vector for   *)
(* each text it was given, or raises an error.                             *)
(***************************************************************************)

\* chunks.map((content, i) => ({content, embedding: embeddings[i]}))
PairChunks_FirstVector(cs, embeddings) ==
    [i \in 1..Len(cs) |-> [content |-> cs[i], embedding |-> embeddings[1]]]

\* chunks.map((content, i) => ({content, embedding: embeddings[i]}))
PairChunks(cs, embeddings) ==
    [i \in 1..Len(cs) |-> [content |-> cs[i], embedding |-> embeddings[i]]]

\* generateEmbeddings(texts), answer being what embedMany returns for them
generateEmbeddings(texts, answer) == IF Len(texts) = 0 THEN <<>> ELSE answer

\* An error that goes through `await` without a catch: the same error.
Propagated_Wrapped(e) == [code |-> "", message |-> "Failed to generate embeddings"]

Propagated(e) == e

\* isApiKeyError(error): error.message includes "API key".  ApiKeyMessages
\* are the messages of the model that do.
ApiKeyMessages == {"OpenAI API key is missing"}
isApiKeyError(e) == e.message \in ApiKeyMessages

NewStore(docs, now) ==
    [model |-> EMBEDDING_MODEL, generatedAt |-> now, documents |-> docs]

\* fs.writeFile(path, data): the file is created or its content replaced
WriteFile_Append(file, data) == [exists |-> TRUE, data |-> file.data \o data]

WriteFile(file, data) == [exists |-> TRUE, data |-> data]

\* Errors.
IndexNotFound ==
    [code |-> "", message |-> "Embeddings not found. Run 'janusdoc init' first."]
SyntaxError == [code |-> "", message |-> "Unexpected end of JSON input"]
FsError(code) == [code |-> code, message |-> "fs"]

\* fs.readFile(path): fault is what the file system refuses, "none" if nothing
ReadFile(file, fault) ==
    IF ~file.exists THEN [threw |-> TRUE, error |-> FsError("ENOENT")]
    ELSE IF fault # "none" THEN [threw |-> TRUE, error |-> FsError(fault)]
    ELSE [threw |-> FALSE, content |-> file.data]

\* The catch of loadEmbeddings.
Rethrown_AlwaysNotFound(e) == IndexNotFound

Rethrown(e) == IF e.code = "ENOENT" THEN IndexNotFound ELSE e

\* loadEmbeddings(cwd): [threw, error, raised] or [threw, value]; raised is
\* the error readFile or JSON.parse raised.
loadEmbeddingsOf(file, fault) ==
    LET read == ReadFile(file, fault)
    IN  IF read.threw
        THEN [threw |-> TRUE, error |-> Rethrown(read.error), raised |-> read.error]
        ELSE LET parsed == JSONParse(read.content)
             IN  IF parsed.ok
                 THEN [threw |-> FALSE, value |-> parsed.value]
                 ELSE [threw |-> TRUE, error |-> Rethrown(SyntaxError),
                       raised |-> SyntaxError]

\* The inputs.
DocContents == {<<"a", " ", "b">>,
                <<"a", " ", "b", " ", "a">>,
                <<" ", "a", "\n", "b", " ">>}
DocFiles == [path : Paths, content : DocContents]

\* What a scan of the documentation directory gives: no path twice.
Corpora ==
    {ds \in UNION {[1..n -> DocFiles] : n \in 0..Cardinality(Paths)} :
        \A i, j \in 1..Len(ds) : i # j => ds[i].path # ds[j].path}

\* What the provider may answer for n texts: one vector for each.
ProviderKinds == {0, 1}
ProviderAnswers(n) == {[i \in 1..n |-> <<i, k>>] : k \in ProviderKinds}
ProviderErrors == {[code |-> "", message |-> "OpenAI API key is missing"],
                   [code |-> "", message |-> "Rate limit exceeded"]}
Timestamps == {"2025-01-01T00:00:00.000Z", "2025-01-02T00:00:00.000Z"}
ReadFaults == {"none", "EACCES"}

\* A file that is not a store: a write that was cut short.
CutFile == [exists |-> TRUE, data |-> <<Punct("{"), Key("model")>>]

IndexInit ==
    /\ initDocs = <<>>
    /\ initPc = "idle"
    /\ builtDocs = <<>>
    /\ provided = <<>>
    /\ providerError = <<>>
    /\ initError = <<>>
    /\ embeddingsFile \in {NoFile, CutFile}
    /\ lastSaved = <<>>
    /\ replaced = FALSE
    /\ loadPc = "idle"
    /\ loadResult = <<>>
    /\ SearchIdle
    /\ ChunkIdle
    /\ CosineIdle
    /\ LaterIdle

CommandOver == initPc \in {"idle", "done", "failed", "skipped"}

\* generateAssets reaches its embeddings step with the documents it scanned.
generateAssets ==
    /\ CommandOver
    /\ \E ds \in Corpora :
        /\ initDocs' = ds
        /\ initPc' = IF Len(ds) > 0 THEN "embedding" ELSE "done"
    /\ builtDocs' = <<>>
    /\ provided' = <<>>
    /\ providerError' = <<>>
    /\ initError' = <<>>
    /\ loadPc' = "idle"
    /\ loadResult' = <<>>
    /\ UNCHANGED <<embeddingsFile, lastSaved, replaced>>
    /\ UNCHANGED <<searchVars, chunkVars, cosineVars, laterVars>>

\* One iteration of the loop of generateDocEmbeddings, the provider answering.
embedDocument ==
    /\ initPc = "embedding"
    /\ LET doc == initDocs[Len(builtDocs) + 1]
           cs == chunkText(doc.content, CHUNK_SIZE, CHUNK_OVERLAP)
       IN  \E answer \in ProviderAnswers(Len(cs)) :
             LET embeddings == generateEmbeddings(cs, answer)
             IN  /\ builtDocs' = Append(builtDocs,
                        [path |-> doc.path, chunks |-> PairChunks(cs, embeddings)])
                 /\ provided' = Append(provided, embeddings)
    /\ initPc' = IF Len(builtDocs') = Len(initDocs) THEN "saving" ELSE "embedding"
    /\ UNCHANGED <<initDocs, providerError, initError, embeddingsFile, lastSaved,
                   replaced, loadPc, loadResult>>
    /\ UNCHANGED <<searchVars, chunkVars, cosineVars, laterVars>>

\* One iteration of the loop of generateDocEmbeddings, the provider failing:
\* generateDocEmbeddings throws, and generateEmbeddingsAsset catches.
embedDocumentFails ==
    /\ initPc = "embedding"
    /\ \E e \in ProviderErrors :
        /\ providerError' = <<e>>
        /\ initError' = <<Propagated(e)>>
        /\ initPc' = IF isApiKeyError(Propagated(e)) THEN "skipped" ELSE "failed"
    /\ builtDocs' = <<>>
    /\ UNCHANGED <<initDocs, provided, embeddingsFile, lastSaved, replaced,
                   loadPc, loadResult>>
    /\ UNCHANGED <<searchVars, chunkVars, cosineVars, laterVars>>

\* saveEmbeddings(embeddedDocs, cwd)
saveEmbeddings ==
    /\ initPc = "saving"
    /\ \E now \in Timestamps :
        embeddingsFile' = WriteFile(embeddingsFile, JSONStringify(NewStore(builtDocs, now)))
    /\ lastSaved' = <<builtDocs>>
    /\ replaced' = (lastSaved # <<>> /\ lastSaved # <<builtDocs>>)
    /\ initPc' = "done"
    /\ UNCHANGED <<initDocs, builtDocs, provided, providerError, initError,
                   loadPc, loadResult>>
    /\ UNCHANGED <<searchVars, chunkVars, cosineVars, laterVars>>

\* loadEmbeddings(cwd), between two runs of init
loadEmbeddings ==
    /\ CommandOver
    /\ loadPc = "idle"
    /\ \E fault \in ReadFaults :
        loadResult' = loadEmbeddingsOf(embeddingsFile, fault)
    /\ loadPc' = IF loadResult'.threw THEN "threw" ELSE "returned"
    /\ UNCHANGED <<initDocs, initPc, builtDocs, provided, providerError, initError,
                   embeddingsFile, lastSaved, replaced>>
    /\ UNCHANGED <<searchVars, chunkVars, cosineVars, laterVars>>

IndexNext ==
    \/ generateAssets
    \/ embedDocument
    \/ embedDocumentFails
    \/ saveEmbeddings
    \/ loadEmbeddings

SpecIndex == IndexInit /\ [][IndexNext]_vars

(***************************************************************************)
(* filterCodeFiles and filterDocFiles (src/src/lib/git.ts).  A path and an *)
(* extension are sequences of one-character strings.                       *)
(***************************************************************************)
codeExtensions ==
    <<<<".", "t", "s">>,
      <<".", "t", "s", "x">>,
      <<".", "j", "s">>,
      <<".", "j", "s", "x">>,
      <<".", "m", "j", "s">>,
      <<".", "c", "j", "s">>,
      <<".", "p", "y">>,
      <<".", "r", "b">>,
      <<".", "g", "o">>,
      <<".", "r", "s">>,
      <<".", "j", "a", "v", "a">>,
      <<".", "k", "t">>,
      <<".", "c">>,
      <<".", "c", "p", "p">>,
      <<".", "h">>,
      <<".", "h", "p", "p">>,
      <<".", "c", "s">>,
      <<".", "s", "w", "i", "f", "t">>,
      <<".", "v", "u", "e">>,
      <<".", "s", "v", "e", "l", "t", "e">>,
      <<".", "a", "s", "t", "r", "o">>,
      <<".", "j", "s", "o", "n">>,
      <<".", "y", "a", "m", "l">>,
      <<".", "y", "m", "l">>,
      <<".", "t", "o", "m", "l">>>>

docExtensions == <<<<".", "m", "d">>, <<".", "m", "d", "x">>,
                   <<".", "r", "s", "t">>, <<".", "t", "x", "t">>>>

\* String.prototype.toLowerCase, on the letters the paths of the model have.
LowerCase == [c \in {"A", "D", "M", "S", "T"} |->
                 CASE c = "A" -> "a" [] c = "D" -> "d" [] c = "M" -> "m"
                   [] c = "S" -> "s" [] c = "T" -> "t"]

\* Mutant of toLowerCase: the path is matched as it is.
toLowerCase_Identity(str) == str

toLowerCase(str) ==
    [i \in 1..Len(str) |-> IF str[i] \in DOMAIN LowerCase THEN LowerCase[str[i]]
                                                            ELSE str[i]]

\* str.match(/\.[^.]+$/)?.[0]: <<>> for undefined, else <<ext>>.  Only the
\* last dot can begin a match, and only with a character after it.
MatchExtension(str) ==
    LET dots == {i \in 1..Len(str) : str[i] = "."}
    IN  IF dots = {} THEN <<>>
        ELSE LET last == CHOOSE i \in dots : \A j \in dots : j <= i
             IN  IF last = Len(str) THEN <<>>
                 ELSE <<SubSeq(str, last, Len(str))>>

\* ext && extensions.includes(ext)
Includes(extensions, ext) == \E k \in 1..Len(extensions) : extensions[k] = ext
HasExtensionOf(file, extensions) ==
    LET ext == MatchExtension(toLowerCase(file.path))
    IN  ext # <<>> /\ Includes(extensions, ext[1])

filterCodeFiles(files) ==
    SelectSeq(files, LAMBDA file : HasExtensionOf(file, codeExtensions))

filterDocFiles(files) ==
    SelectSeq(files, LAMBDA file : HasExtensionOf(file, docExtensions))

\* The inputs.
FilterPaths ==
    {<<"a", ".", "t", "s">>,   \* a.ts
     <<"A", ".", "T", "S">>,   \* A.TS
     <<"a", ".", "m", "d">>,   \* a.md
     <<"a", ".", "M", "D">>,   \* a.MD
     <<"a">>,   \* a
     <<"a", ".", "t", "s", ".", "m", "d">>,   \* a.ts.md
     <<"a", ".", "m", "d", ".", "t", "s">>,   \* a.md.ts
     <<"s", ".", "t", "s", "/", "a">>,   \* s.ts/a
     <<"a", ".", "t", "s", ".">>,   \* a.ts.
     <<".", "j", "s", "o", "n">>}   \* .json
ChangedFiles == [path : FilterPaths, additions : {1}, deletions : {0}]
MaxFiles == 3
ChangedFileLists == UNION {[1..n -> ChangedFiles] : n \in 0..MaxFiles}

FilterInit ==
    /\ changedFiles \in ChangedFileLists
    /\ codeFiltered = <<>>
    /\ docFiltered = <<>>
    /\ SearchIdle
    /\ ChunkIdle
    /\ CosineIdle
    /\ IndexIdle
    /\ AnalyzeIdle
    /\ RunIdle

\* filterCodeFiles(changedFiles)
filterCodeFilesCall ==
    /\ codeFiltered = <<>>
    /\ codeFiltered' = <<filterCodeFiles(changedFiles)>>
    /\ UNCHANGED <<changedFiles, docFiltered>>
    /\ UNCHANGED <<searchVars, chunkVars, cosineVars, indexVars, analyzeVars, runVars>>

\* filterDocFiles(changedFiles)
filterDocFilesCall ==
    /\ docFiltered = <<>>
    /\ docFiltered' = <<filterDocFiles(changedFiles)>>
    /\ UNCHANGED <<changedFiles, codeFiltered>>
    /\ UNCHANGED <<searchVars, chunkVars, cosineVars, indexVars, analyzeVars, runVars>>

FilterNext == filterCodeFilesCall \/ filterDocFilesCall

SpecFilter == FilterInit /\ [][FilterNext]_vars

(***************************************************************************)
(* analyzeChanges (src/src/lib/analyzer.ts).  The language model is        *)
(* outside the code: generateObject answers with an object that fits the   *)
(* schema, or throws an error that may carry the rejected value.           *)
(***************************************************************************)

\* new Set(docs.map((d) => d.path))
ValidDocPaths(docs) == {docs[i].path : i \in 1..Len(docs)}

\* suggestions.filter((s) => validDocPaths.has(s.docPath)); a suggestion
\* without a docPath has docPath undefined, which the set does not hold.
FilterSuggestions(suggestions, valid) ==
    SelectSeq(suggestions,
              LAMBDA sg : "docPath" \in DOMAIN sg /\ sg.docPath \in valid)

\* Mutant of RecoveredSuggestions: the rejected value's suggestions as they are.
RecoveredSuggestions_Unfiltered(value, valid) == value.suggestions

\* The catch of analyzeChanges on an error that carries suggestions.
RecoveredSuggestions(value, valid) == FilterSuggestions(value.suggestions, valid)

\* analyzeChanges(diff, changedFiles, docs, styleguide, docMap), answer being
\* what generateObject does when it is called: [threw, called, suggestions].
analyzeChanges(files, docs, answer) ==
    IF Len(files) = 0 \/ Len(docs) = 0
    THEN [threw |-> FALSE, called |-> FALSE, suggestions |-> <<>>]
    ELSE IF answer.kind = "object"
    THEN [threw |-> FALSE, called |-> TRUE,
          suggestions |-> FilterSuggestions(answer.suggestions, ValidDocPaths(docs))]
    ELSE IF answer.kind = "invalid" /\ answer.hasSuggestions
    THEN [threw |-> FALSE, called |-> TRUE,
          suggestions |-> RecoveredSuggestions(answer, ValidDocPaths(docs))]
    ELSE [threw |-> TRUE, called |-> TRUE, suggestions |-> <<>>]

\* The inputs.
MaxSuggestions == 2
InventedPaths == {"invented.md"}
Suggestions == [docPath : Paths \cup InventedPaths]
SuggestionLists == UNION {[1..n -> Suggestions] : n \in 0..MaxSuggestions}
\* What a rejected value may hold: suggestions, some without a docPath.
RejectedSuggestions == Suggestions \cup {[reason |-> "no docPath"]}
RejectedLists == UNION {[1..n -> RejectedSuggestions] : n \in 0..MaxSuggestions}
ModelAnswers ==
    [kind : {"object"}, suggestions : SuggestionLists]
    \cup [kind : {"invalid"}, hasSuggestions : {TRUE}, suggestions : RejectedLists]
    \cup {[kind |-> "invalid", hasSuggestions |-> FALSE], [kind |-> "error"]}
AnalyzedFileLists ==
    {<<>>, <<[path |-> <<"a", ".", "t", "s">>, additions |-> 1, deletions |-> 0]>>}

AnalyzeInit ==
    /\ anChangedFiles \in AnalyzedFileLists
    /\ anDocs \in Corpora
    /\ anPc = "call"
    /\ anAnswer = <<>>
    /\ anResult = <<>>
    /\ SearchIdle
    /\ ChunkIdle
    /\ CosineIdle
    /\ IndexIdle
    /\ FilterIdle
    /\ RunIdle

\* analyzeChanges(diff, anChangedFiles, anDocs, styleguide, docMap)
analyzeChangesCall ==
    /\ anPc = "call"
    /\ \E answer \in ModelAnswers :
        LET r == analyzeChanges(anChangedFiles, anDocs, answer)
        IN  /\ anAnswer' = IF r.called THEN <<answer>> ELSE <<>>
            /\ anResult' = r.suggestions
            /\ anPc' = IF r.threw THEN "threw" ELSE "returned"
    /\ UNCHANGED <<anChangedFiles, anDocs>>
    /\ UNCHANGED <<searchVars, chunkVars, cosineVars, indexVars, filterVars, runVars>>

AnalyzeNext == analyzeChangesCall

SpecAnalyze == AnalyzeInit /\ [][AnalyzeNext]_vars

(***************************************************************************)
(* runCommand: the stages of a run, each one step.  The pull request, the   *)
(* repository, the language model and the embedding provider are outside   *)
(* the code: what they answer is chosen at the stage that asks them.  The   *)
(* embeddings file is the one `janusdoc init` left in the project.         *)
(***************************************************************************)
StageOrder == <<"loadContext", "connectGitHub", "getChanges", "scanDocs",
                "findRelevantDocs", "analyze", "postResults">>

\* Mutant of NullStops: runCommand goes on with a null context.
NullStops_Never(isNull, next) == next

\* if (!ctx) { p.outro("Done!"); return; }
NullStops(isNull, next) == IF isNull THEN "done" ELSE next

\* embeddingsExist(cwd): fs.access succeeds on the embeddings file
embeddingsExist(file) == file.exists

\* searchSimilarDocs(queryEmbedding, docs, topN, threshold) as a value:
\* [threw], or [threw, results]
searchSimilarDocsOf(q, docs, topNOpt, thresholdOpt) ==
    IF ScoringThrows(q, docs) THEN [threw |-> TRUE]
    ELSE [threw |-> FALSE,
          results |-> TakeTopN(DedupeByPath(SortBySimilarity(
                          ScoreChunks(q, docs, ThresholdOf(thresholdOpt)))),
                               TopNOf(topNOpt))]

\* Mutant of DocsOfResults: the scanned documents that some result names, in
\* the order of the scan.
DocsOfResults_ScanOrder(results, docs) ==
    SelectSeq(docs, LAMBDA d : \E i \in 1..Len(results) : results[i].path = d.path)

\* searchResults.map((r) => allDocs.find(...)).filter((doc) => doc !== undefined)
RECURSIVE DocsOfResults(_, _)
DocsOfResults(results, docs) ==
    LET \* allDocs.find((doc) => doc.path === path): <<>> when there is none
        find(path) ==
            LET found == {i \in 1..Len(docs) : docs[i].path = path}
            IN  IF found = {} THEN <<>>
                ELSE <<docs[CHOOSE i \in found : \A j \in found : i <= j]>>
    IN  IF results = <<>> THEN <<>>
        ELSE find(results[1].path) \o DocsOfResults(Tail(results), docs)

\* Mutant of ShouldPost: the dry-run option is not looked at.
ShouldPost_IgnoresDryRun(dry, found) == Len(found) > 0

\* postResults posts when the run is not a dry run and there are suggestions.
ShouldPost(dry, found) == ~dry /\ Len(found) > 0

\* The inputs.  A project is what runs of `janusdoc init` left: never
\* initialized (with no embeddings file, or one cut short), initialized over
\* a corpus of two documents (the provider answering with one kind of vector
\* for each), or initialized and then (or only) skipped on a missing key.
Projects ==
    LET corpus == <<[path |-> "a.md", content |-> <<"a", " ", "b">>],
                    [path |-> "b.md", content |-> <<"a", " ", "b">>]>>
        chunksOf(d) == chunkText(corpus[d].content, CHUNK_SIZE, CHUNK_OVERLAP)
        answers(kinds) ==
            [d \in 1..Len(corpus) |->
                generateEmbeddings(chunksOf(d),
                    [i \in 1..Len(chunksOf(d)) |-> <<i, kinds[d]>>])]
        index(kinds) ==
            [d \in 1..Len(corpus) |->
                [path |-> corpus[d].path,
                 chunks |-> PairChunks(chunksOf(d), answers(kinds)[d])]]
        missingKey == [code |-> "", message |-> "OpenAI API key is missing"]
        neverInitialized(f) ==
            [initPc |-> "idle", initDocs |-> <<>>, builtDocs |-> <<>>,
             provided |-> <<>>, providerError |-> <<>>, initError |-> <<>>,
             embeddingsFile |-> f, lastSaved |-> <<>>, replaced |-> FALSE]
        initialized ==
            {[initPc |-> "done", initDocs |-> corpus, builtDocs |-> index(k),
              provided |-> answers(k), providerError |-> <<>>, initError |-> <<>>,
              embeddingsFile |->
                  WriteFile(NoFile, JSONStringify(NewStore(index(k),
                                        "2025-01-01T00:00:00.000Z"))),
              lastSaved |-> <<index(k)>>, replaced |-> FALSE] :
                k \in {<<0, 1>>, <<1, 0>>}}
        skippedAfter(project) ==
            [project EXCEPT !.initPc = "skipped", !.initDocs = corpus,
                            !.builtDocs = <<>>, !.provided = <<>>,
                            !.providerError = <<missingKey>>,
                            !.initError = <<Propagated(missingKey)>>]
    IN  {neverInitialized(NoFile), neverInitialized(CutFile)}
        \cup initialized
        \cup {skippedAfter(q) : q \in initialized \cup {neverInitialized(NoFile)}}

SearchConfigs ==
    {<<>>,
     <<[topN |-> <<>>, threshold |-> <<<<0, 1>>>>]>>,
     <<[topN |-> <<1>>, threshold |-> <<>>]>>,
     <<[topN |-> <<-1>>, threshold |-> <<<<0, 1>>>>]>>}
RunChangedFileLists ==
    {<<>>,
     <<[path |-> <<"a", ".", "m", "d">>, additions |-> 1, deletions |-> 0]>>,
     <<[path |-> <<"a", ".", "m", "d">>, additions |-> 1, deletions |-> 0],
       [path |-> <<"a", ".", "t", "s">>, additions |-> 1, deletions |-> 0]>>}
ScannedCorpora ==
    {ds \in Corpora : \A i \in 1..Len(ds) : ds[i].content = <<"a", " ", "b">>}

RunInit ==
    /\ dryRun \in BOOLEAN
    /\ runPc = "loadContext"
    /\ stagesRun = <<>>
    /\ calls = <<>>
    /\ runConfig = <<>>
    /\ runCodeFiles = <<>>
    /\ allDocs = <<>>
    /\ runSearch = <<>>
    /\ relevantDocs = <<>>
    /\ runSuggestions = <<>>
    /\ \E p \in Projects :
        /\ initPc = p.initPc
        /\ initDocs = p.initDocs
        /\ builtDocs = p.builtDocs
        /\ provided = p.provided
        /\ providerError = p.providerError
        /\ initError = p.initError
        /\ embeddingsFile = p.embeddingsFile
        /\ lastSaved = p.lastSaved
        /\ replaced = p.replaced
    /\ loadPc = "idle"
    /\ loadResult = <<>>
    /\ SearchIdle
    /\ ChunkIdle
    /\ CosineIdle
    /\ FilterIdle
    /\ AnalyzeIdle

\* loadContext(cwd, spinner)
loadContext ==
    /\ runPc = "loadContext"
    /\ stagesRun' = Append(stagesRun, "loadContext")
    /\ \E search \in SearchConfigs : runConfig' = <<[search |-> search]>>
    /\ calls' = Append(calls, "loadConfig")
    /\ runPc' = "connectGitHub"
    /\ UNCHANGED <<runCodeFiles, allDocs, runSearch, relevantDocs, runSuggestions,
                   loadPc, loadResult>>
    /\ UNCHANGED <<dryRun, initDocs, initPc, builtDocs, provided, providerError,
                   initError, embeddingsFile, lastSaved, replaced>>
    /\ UNCHANGED <<searchVars, chunkVars, cosineVars, filterVars, analyzeVars>>

\* connectGitHub(ctx, options, spinner): getPRInfo answers or throws
connectGitHub ==
    /\ runPc = "connectGitHub"
    /\ stagesRun' = Append(stagesRun, "connectGitHub")
    /\ calls' = Append(calls, "getPRInfo")
    /\ \E answered \in BOOLEAN : runPc' = IF answered THEN "getChanges" ELSE "threw"
    /\ UNCHANGED <<runConfig, runCodeFiles, allDocs, runSearch, relevantDocs,
                   runSuggestions, loadPc, loadResult>>
    /\ UNCHANGED <<dryRun, initDocs, initPc, builtDocs, provided, providerError,
                   initError, embeddingsFile, lastSaved, replaced>>
    /\ UNCHANGED <<searchVars, chunkVars, cosineVars, filterVars, analyzeVars>>

\* getChanges(ctx, spinner)
getChanges ==
    /\ runPc = "getChanges"
    /\ stagesRun' = Append(stagesRun, "getChanges")
    /\ \E files \in RunChangedFileLists :
        LET codeFiles == filterCodeFiles(files)
        IN  /\ runCodeFiles' = codeFiles
            /\ calls' = calls \o (IF Len(codeFiles) = 0 THEN <<"getChangedFiles">>
                                  ELSE <<"getChangedFiles", "getDiffPatch">>)
            /\ runPc' = NullStops(Len(codeFiles) = 0, "scanDocs")
    /\ UNCHANGED <<runConfig, allDocs, runSearch, relevantDocs, runSuggestions,
                   loadPc, loadResult>>
    /\ UNCHANGED <<dryRun, initDocs, initPc, builtDocs, provided, providerError,
                   initError, embeddingsFile, lastSaved, replaced>>
    /\ UNCHANGED <<searchVars, chunkVars, cosineVars, filterVars, analyzeVars>>

\* scanDocs(ctx, spinner)
scanDocs ==
    /\ runPc = "scanDocs"
    /\ stagesRun' = Append(stagesRun, "scanDocs")
    /\ calls' = Append(calls, "scanDocsDirectory")
    /\ \E docs \in ScannedCorpora :
        /\ allDocs' = docs
        /\ runPc' = NullStops(Len(docs) = 0, "findRelevantDocs")
    /\ UNCHANGED <<runConfig, runCodeFiles, runSearch, relevantDocs, runSuggestions,
                   loadPc, loadResult>>
    /\ UNCHANGED <<dryRun, initDocs, initPc, builtDocs, provided, providerError,
                   initError, embeddingsFile, lastSaved, replaced>>
    /\ UNCHANGED <<searchVars, chunkVars, cosineVars, filterVars, analyzeVars>>

\* findRelevantDocs(ctx, spinner) with no embeddings file: all docs
findRelevantDocsWithoutIndex ==
    /\ runPc = "findRelevantDocs"
    /\ ~embeddingsExist(embeddingsFile)
    /\ stagesRun' = Append(stagesRun, "findRelevantDocs")
    /\ relevantDocs' = allDocs
    /\ runPc' = NullStops(Len(allDocs) = 0, "analyze")
    /\ UNCHANGED <<calls, runConfig, runCodeFiles, allDocs, runSearch,
                   runSuggestions, loadPc, loadResult>>
    /\ UNCHANGED <<dryRun, initDocs, initPc, builtDocs, provided, providerError,
                   initError, embeddingsFile, lastSaved, replaced>>
    /\ UNCHANGED <<searchVars, chunkVars, cosineVars, filterVars, analyzeVars>>

\* findRelevantDocs(ctx, spinner) with an embeddings file: the provider
\* summarizes and embeds or fails, the store is loaded, the index searched.
\* The embedding <<1>> is of another dimension than the vectors of the index.
findRelevantDocsWithIndex ==
    /\ runPc = "findRelevantDocs"
    /\ embeddingsExist(embeddingsFile)
    /\ stagesRun' = Append(stagesRun, "findRelevantDocs")
    /\ \E answered \in BOOLEAN, summaryEmbedding \in QueryVectors \cup {<<1>>},
          fault \in ReadFaults :
        \E loaded \in {loadEmbeddingsOf(embeddingsFile, fault)} :
          IF ~answered
          THEN /\ calls' = Append(calls, "summarizeCodeChanges")
               /\ runPc' = "threw"
               /\ UNCHANGED <<runSearch, relevantDocs, loadPc, loadResult>>
          ELSE IF loaded.threw
          THEN /\ calls' = calls \o <<"summarizeCodeChanges", "generateEmbedding",
                                      "loadEmbeddings">>
               /\ loadResult' = loaded
               /\ loadPc' = "threw"
               /\ runPc' = "threw"
               /\ UNCHANGED <<runSearch, relevantDocs>>
          ELSE \* ctx.config.search?.topN and ctx.config.search?.threshold
               \E searched \in {searchSimilarDocsOf(summaryEmbedding,
                       loaded.value.documents,
                       IF runConfig[1].search = <<>> THEN <<>>
                       ELSE runConfig[1].search[1].topN,
                       IF runConfig[1].search = <<>> THEN <<>>
                       ELSE runConfig[1].search[1].threshold)} :
                 /\ calls' = calls \o <<"summarizeCodeChanges", "generateEmbedding",
                                        "loadEmbeddings", "searchSimilarDocs">>
                 /\ loadResult' = loaded
                 /\ loadPc' = "returned"
                 /\ IF searched.threw
                    THEN /\ runPc' = "threw"
                         /\ UNCHANGED <<runSearch, relevantDocs>>
                    ELSE /\ runSearch' = <<searched.results>>
                         /\ relevantDocs' = DocsOfResults(searched.results, allDocs)
                         /\ runPc' = NullStops(Len(relevantDocs') = 0, "analyze")
    /\ UNCHANGED <<runConfig, runCodeFiles, allDocs, runSuggestions>>
    /\ UNCHANGED <<dryRun, initDocs, initPc, builtDocs, provided, providerError,
                   initError, embeddingsFile, lastSaved, replaced>>
    /\ UNCHANGED <<searchVars, chunkVars, cosineVars, filterVars, analyzeVars>>

\* analyze(ctx, spinner)
analyze ==
    /\ runPc = "analyze"
    /\ stagesRun' = Append(stagesRun, "analyze")
    /\ calls' = Append(calls, "analyzeChanges")
    /\ \E answer \in ModelAnswers :
        LET r == analyzeChanges(runCodeFiles, relevantDocs, answer)
        IN  /\ runSuggestions' = r.suggestions
            /\ runPc' = IF r.threw THEN "threw" ELSE "postResults"
    /\ UNCHANGED <<runConfig, runCodeFiles, allDocs, runSearch, relevantDocs,
                   loadPc, loadResult>>
    /\ UNCHANGED <<dryRun, initDocs, initPc, builtDocs, provided, providerError,
                   initError, embeddingsFile, lastSaved, replaced>>
    /\ UNCHANGED <<searchVars, chunkVars, cosineVars, filterVars, analyzeVars>>

\* postResults(ctx, options, spinner): GitHub takes the comment or refuses
postResults ==
    /\ runPc = "postResults"
    /\ stagesRun' = Append(stagesRun, "postResults")
    /\ IF ShouldPost(dryRun, runSuggestions)
       THEN /\ calls' = Append(calls, "upsertPRComment")
            /\ \E taken \in BOOLEAN : runPc' = IF taken THEN "done" ELSE "threw"
       ELSE /\ runPc' = "done"
            /\ UNCHANGED calls
    /\ UNCHANGED <<runConfig, runCodeFiles, allDocs, runSearch, relevantDocs,
                   runSuggestions, loadPc, loadResult>>
    /\ UNCHANGED <<dryRun, initDocs, initPc, builtDocs, provided, providerError,
                   initError, embeddingsFile, lastSaved, replaced>>
    /\ UNCHANGED <<searchVars, chunkVars, cosineVars, filterVars, analyzeVars>>

RunNext ==
    \/ loadContext
    \/ connectGitHub
    \/ getChanges
    \/ scanDocs
    \/ findRelevantDocsWithoutIndex
    \/ findRelevantDocsWithIndex
    \/ analyze
    \/ postResults

SpecRun == RunInit /\ [][RunNext]_vars

(***************************************************************************)
(* Properties of searchSimilarDocs.                                        *)
(***************************************************************************)
\* The similarity of chunk i of AllChunks(embeddedDocs) to the query.
SimilarityAt(i) ==
    cosineSimilarity(queryEmbedding, AllChunks(embeddedDocs)[i].embedding).value

ChunkCount == Len(AllChunks(embeddedDocs))

\* C1, as stated: for every query vector, index, topN and threshold,
\* searchSimilarDocs returns at most topN results.
C1_AtMostTopN_AnyTopN ==
    searchPc = "returned" => Len(searchResults) <= topN

\* C1, amended: for every query vector, index and threshold and every
\* topN >= 0, searchSimilarDocs returns at most topN results.
C1_AtMostTopN ==
    (searchPc = "returned" /\ topN >= 0) => Len(searchResults) <= topN

\* C1 witness: two documents qualified and topN = 1 cut the result to one.
C1_Witness ==
    /\ searchPc = "returned"
    /\ topN = 1
    /\ Len(deduped) = 2
    /\ Len(searchResults) = 1

\* C2: no two results returned by searchSimilarDocs have the same document
\* path, also when the index lists a path twice or a document has several
\* chunks above the threshold.
C2_DistinctPaths ==
    searchPc = "returned" =>
        \A i, j \in 1..Len(searchResults) :
            i # j => searchResults[i].path # searchResults[j].path

\* C2 witness: the index lists one path in two documents, chunks of both
\* passed the threshold, and a result for that path was returned.
C2_Witness ==
    /\ searchPc = "returned"
    /\ Len(embeddedDocs) >= 2
    /\ embeddedDocs[1].path = embeddedDocs[2].path
    /\ \E i, j \in 1..Len(kept) :
          /\ kept[i].content[2] = 1
          /\ kept[j].content[2] = 2
    /\ Len(searchResults) = 1

\* C3: a result's similarity is the maximum similarity to the query over all
\* chunks stored under the result's path, and its content is the content of a
\* chunk that attains the maximum.
C3_BestChunkPerPath ==
    searchPc = "returned" =>
        \A k \in 1..Len(searchResults) :
            LET r == searchResults[k]
                all == AllChunks(embeddedDocs)
            IN  /\ \A i \in 1..ChunkCount :
                       all[i].path = r.path => SimGe(r.similarity, SimilarityAt(i))
                /\ \E i \in 1..ChunkCount :
                       /\ all[i].path = r.path
                       /\ all[i].content = r.content
                       /\ SimilarityAt(i) = r.similarity

\* C3 witness: two chunks of one path passed the threshold, the one that
\* comes first in the index with the strictly lower similarity, and the
\* result for the path carries the later, better chunk.
C3_Witness ==
    /\ searchPc = "returned"
    /\ Len(kept) >= 2
    /\ kept[1].path = kept[2].path
    /\ SimGt(kept[2].similarity, kept[1].similarity)
    /\ \E k \in 1..Len(searchResults) : searchResults[k].content = kept[2].content

\* C4: every result has similarity >= threshold, and a chunk whose
\* similarity equals the threshold is kept by the threshold step.
C4_ThresholdInclusive ==
    searchPc = "returned" =>
        /\ \A k \in 1..Len(searchResults) :
               SimGe(searchResults[k].similarity, Rational(threshold))
        /\ \A i \in 1..ChunkCount :
               SimilarityAt(i) = Rational(threshold) =>
                   \E k \in 1..Len(kept) :
                       kept[k].content = AllChunks(embeddedDocs)[i].content

\* C4 witness: a returned result whose similarity is the threshold exactly,
\* while another chunk, below the threshold, was discarded.
C4_Witness ==
    /\ searchPc = "returned"
    /\ \E k \in 1..Len(searchResults) :
           searchResults[k].similarity = Rational(threshold)
    /\ \E i \in 1..ChunkCount : ~SimGe(SimilarityAt(i), Rational(threshold))

\* C5: the returned sequence is ordered by similarity, descending.
C5_Descending ==
    searchPc = "returned" =>
        \A i, j \in 1..Len(searchResults) :
            i < j => SimGe(searchResults[i].similarity, searchResults[j].similarity)

\* C5 witness: two results of different similarity were returned, and the
\* scoring loop had met them in ascending order.
C5_Witness ==
    /\ searchPc = "returned"
    /\ Len(searchResults) = 2
    /\ Len(kept) = 2
    /\ SimGt(kept[2].similarity, kept[1].similarity)
    /\ searchResults[1] = kept[2]

\* Every stored vector has the query's length: every chunk has a similarity.
AllComparable ==
    \A i \in 1..ChunkCount :
        Len(AllChunks(embeddedDocs)[i].embedding) = Len(queryEmbedding)

\* C6: when every stored chunk has a similarity to the query and none is
\* >= threshold (threshold 1.1, an empty index), searchSimilarDocs returns
\* the empty sequence and does not throw.
C6_EmptyIsNormal ==
    (/\ searchPc # "call"
     /\ AllComparable
     /\ \A i \in 1..ChunkCount : ~SimGe(SimilarityAt(i), Rational(threshold)))
    => (searchPc = "returned" /\ searchResults = <<>>)

\* C6 witness: a search with threshold 1.1 over an index that holds a chunk
\* of similarity 1 returned the empty sequence.
C6_Witness ==
    /\ searchPc = "returned"
    /\ threshold = <<11, 10>>
    /\ \E i \in 1..ChunkCount : SimilarityAt(i) = Rational(<<1, 1>>)
    /\ topN >= 1
    /\ searchResults = <<>>

(***************************************************************************)
(* Properties of chunkText.                                                *)
(***************************************************************************)
\* The word count of the text: the number of pieces of the split.
WordCount == Len(SplitWhitespace(text))

\* The call splits the text: 0 <= overlap < chunkSize < word count.
SplitsText ==
    /\ 0 <= overlap
    /\ overlap < chunkSize
    /\ WordCount > chunkSize

\* The words of a chunk.  No word holds whitespace, so splitting the joined
\* chunk gives back the words that were joined.
WordsOf(chunk) == SplitWhitespace(chunk)

\* C7: for a text of at most chunkSize words, chunkText returns exactly one
\* segment, the text itself with its whitespace as it was.
C7_ShortTextUnchanged ==
    (chunkPc = "returned" /\ WordCount <= chunkSize) => chunks = <<text>>

\* C7 witness: a text of chunkSize words whose joined words differ from it
\* was returned.
C7_Witness ==
    /\ chunkPc = "returned"
    /\ WordCount = chunkSize
    /\ WordCount >= 2
    /\ JoinSpace(SplitWhitespace(text)) # text
    /\ chunks = <<text>>

\* C8: for a text of more than chunkSize words (0 <= overlap < chunkSize),
\* chunkText returns at least 2 segments, and adjacent segments share exactly
\* overlap words: the last overlap words of segment k are the first overlap
\* words of segment k+1, and the two windows have overlap words in common.
C8_AdjacentOverlap ==
    (chunkPc = "returned" /\ SplitsText) =>
        /\ Len(chunks) >= 2
        /\ \A k \in 1..(Len(chunks) - 1) :
               LET a == WordsOf(chunks[k])
                   b == WordsOf(chunks[k + 1])
               IN  /\ Len(a) >= overlap
                   /\ Len(b) >= overlap
                   /\ SubSeq(a, Len(a) - overlap + 1, Len(a)) = SubSeq(b, 1, overlap)
                   /\ windows[k][2] - windows[k + 1][1] = overlap

\* C8 witness: a split into three segments with overlap 1, in which the word
\* shared by two segments differs from the word before it.
C8_Witness ==
    /\ chunkPc = "returned"
    /\ SplitsText
    /\ overlap = 1
    /\ Len(chunks) = 3
    /\ WordsOf(chunks[1])[1] # WordsOf(chunks[1])[2]
    /\ WordsOf(chunks[2])[1] # WordsOf(chunks[2])[2]

\* C9: when chunkText splits a text, segment k (from 0) starts at word
\* k * (chunkSize - overlap), every segment but the last has exactly
\* chunkSize words, and the last has between 1 and chunkSize words and ends
\* at the last word of the text.
C9_WindowLayout ==
    (chunkPc = "returned" /\ SplitsText) =>
        LET ws == SplitWhitespace(text)
            n == Len(chunks)
            from(k) == (k - 1) * (chunkSize - overlap)
        IN  /\ n >= 1
            /\ \A k \in 1..(n - 1) :
                   /\ from(k) + chunkSize < Len(ws)
                   /\ chunks[k] = JoinSpace(SubSeq(ws, from(k) + 1, from(k) + chunkSize))
                   /\ Len(WordsOf(chunks[k])) = chunkSize
            /\ from(n) < Len(ws)
            /\ Len(ws) - from(n) <= chunkSize
            /\ chunks[n] = JoinSpace(SubSeq(ws, from(n) + 1, Len(ws)))
            /\ Len(WordsOf(chunks[n])) = Len(ws) - from(n)

\* C9 witness: a split whose last segment is shorter than chunkSize.
C9_Witness ==
    /\ chunkPc = "returned"
    /\ SplitsText
    /\ chunkSize = 3
    /\ overlap = 1
    /\ Len(chunks) = 2
    /\ Len(WordsOf(chunks[2])) = 2

\* C10: for overlap < chunkSize, chunkText returns, and every iteration that
\* does not end the loop moves the window start strictly forward.
C10_Terminates ==
    /\ (overlap < chunkSize) => <>(chunkPc = "returned")
    /\ [][(overlap < chunkSize /\ chunkPc = "loop" /\ chunkPc' = "loop")
              => start' > start]_vars

\* C10 witness: a call with overlap < chunkSize returned after three
\* iterations of the loop.
C10_Witness ==
    /\ chunkPc = "returned"
    /\ overlap < chunkSize
    /\ overlap > 0
    /\ Len(windows) = 3
    /\ windows[1][1] < windows[2][1]
    /\ windows[2][1] < windows[3][1]

\* The call cannot advance: overlap >= chunkSize and more than chunkSize words.
CannotAdvance ==
    /\ overlap >= chunkSize
    /\ WordCount > chunkSize

\* C11: with overlap >= chunkSize on a text of more than chunkSize words the
\* window start never increases, every window ends before the last word, the
\* loop condition stays true and chunkText never returns.
C11_NeverAdvances ==
    /\ [](CannotAdvance =>
            /\ chunkPc # "returned"
            /\ chunkPc = "loop" => (start <= 0 /\ start < Len(words))
            /\ \A k \in 1..Len(windows) : windows[k][2] < Len(words))
    /\ [][(CannotAdvance /\ chunkPc = "loop")
              => (chunkPc' = "loop" /\ start' <= start)]_vars

\* C11 witness: the loop has run MaxIter times, is still in the loop, and
\* the window start has moved backwards.
C11_Witness ==
    /\ CannotAdvance
    /\ chunkPc = "loop"
    /\ Len(chunks) = MaxIter
    /\ start < 0

(***************************************************************************)
(* Properties of cosineSimilarity.                                         *)
(***************************************************************************)
\* Every component of v is 0 (the empty vector included): zero magnitude.
ZeroMagnitude(v) == \A i \in 1..Len(v) : v[i] = 0

Negated(v) == [i \in 1..Len(v) |-> -v[i]]

One == Rational(<<1, 1>>)
MinusOne == Rational(<<-1, 1>>)
Zero == Rational(<<0, 1>>)

\* C12: cosineSimilarity(a, b) throws "Vectors must have the same length"
\* whenever the lengths differ, empty and all-zero vectors included, and
\* gives no number.
C12_LengthMismatchThrows ==
    (cosPc \in {"returned", "threw"} /\ Len(cosA) # Len(cosB)) =>
        /\ cosPc = "threw"
        /\ cosResult.threw
        /\ cosResult.message = "Vectors must have the same length"
        /\ "value" \notin DOMAIN cosResult

\* C12 witness: the call with an empty a and an all-zero b threw.
C12_Witness ==
    /\ cosPc = "threw"
    /\ cosA = <<>>
    /\ cosB = <<0, 0>>

\* C13: for vectors of equal length, cosineSimilarity returns exactly 0 and
\* does not throw whenever either has zero magnitude.
C13_ZeroMagnitudeIsZero ==
    (/\ cosPc \in {"returned", "threw"}
     /\ Len(cosA) = Len(cosB)
     /\ (ZeroMagnitude(cosA) \/ ZeroMagnitude(cosB)))
    => (cosPc = "returned" /\ cosResult.value = Zero)

\* C13 witness: the call with a zero a and a non-zero b of the same length
\* returned 0.
C13_Witness ==
    /\ cosPc = "returned"
    /\ Len(cosA) = 2
    /\ ZeroMagnitude(cosA)
    /\ ~ZeroMagnitude(cosB)
    /\ cosResult.value = Zero

\* C14: for vectors of equal length cosineSimilarity lies in [-1, 1]:
\* dot(a, b)^2 <= (a.a) * (b.b).
C14_InUnitRange ==
    cosPc = "returned" =>
        /\ SimGe(cosResult.value, MinusOne)
        /\ SimGe(One, cosResult.value)
        /\ cosResult.value.num <= cosResult.value.den

\* C14 witness: a call returned a value strictly between 0 and 1 for
\* vectors of different magnitude.
C14_Witness ==
    /\ cosPc = "returned"
    /\ SimGt(cosResult.value, Zero)
    /\ SimGt(One, cosResult.value)
    /\ DotProduct(cosA, cosA, Len(cosA)) # DotProduct(cosB, cosB, Len(cosB))

\* C15: for every non-zero v, cosineSimilarity(v, v) = 1 and
\* cosineSimilarity(v, -v) = -1, whatever the magnitude of v.
C15_SelfAndOpposite ==
    (cosPc = "returned" /\ ~ZeroMagnitude(cosA)) =>
        /\ cosB = cosA => cosResult.value = One
        /\ cosB = Negated(cosA) => cosResult.value = MinusOne

\* C15 witness: the call on v and -v, v of squared magnitude 5, returned -1.
C15_Witness ==
    /\ cosPc = "returned"
    /\ DotProduct(cosA, cosA, Len(cosA)) = 5
    /\ cosB = Negated(cosA)
    /\ cosResult.value = MinusOne

(***************************************************************************)
(* Properties of the index: its build, its file, its load.                 *)
(***************************************************************************)

ChunksOf(doc) == chunkText(doc.content, CHUNK_SIZE, CHUNK_OVERLAP)

\* C16: generateDocEmbeddings returns one entry for each input document, in
\* the order of the input and with the same path; the chunks of an entry are
\* chunkText(doc.content) in order, and the i-th chunk carries the i-th vector
\* the provider returned for that document's batch.  The entries built so far
\* have this form at every step of the loop.
C16_ChunksPairedByPosition ==
    /\ initPc \in {"saving", "done"} => Len(builtDocs) = Len(initDocs)
    /\ Len(builtDocs) <= Len(initDocs)
    /\ Len(provided) >= Len(builtDocs)
    /\ \A d \in 1..Len(builtDocs) :
        /\ builtDocs[d].path = initDocs[d].path
        /\ Len(builtDocs[d].chunks) = Len(ChunksOf(initDocs[d]))
        /\ Len(provided[d]) = Len(ChunksOf(initDocs[d]))
        /\ \A i \in 1..Len(builtDocs[d].chunks) :
            /\ builtDocs[d].chunks[i].content = ChunksOf(initDocs[d])[i]
            /\ builtDocs[d].chunks[i].embedding = provided[d][i]

\* Two documents were embedded, one of them in three chunks, and the provider
\* answered the two batches with different vectors.
C16_Witness ==
    /\ initPc = "saving"
    /\ Len(builtDocs) = 2
    /\ Len(builtDocs[1].chunks) = 3
    /\ Len(builtDocs[2].chunks) = 2
    /\ provided[1][1] # provided[2][1]
    /\ builtDocs[1].chunks[3].embedding = provided[1][3]
    /\ builtDocs[1].chunks[3].embedding # provided[1][1]

\* A step of a build that is embedding or has failed leaves the file alone,
\* and a build that has failed does not go on to saveEmbeddings.
WritesNothing ==
    initPc \in {"embedding", "failed", "skipped"} =>
        /\ embeddingsFile' = embeddingsFile
        /\ lastSaved' = lastSaved
        /\ initPc \in {"failed", "skipped"} => initPc' # "saving"

\* C17: when the provider fails for a document, generateDocEmbeddings throws
\* that same error and returns no index; no step of a build that is embedding
\* or has failed writes the embeddings file, so the file a former build saved
\* stays as it was, and a failed build never goes on to saveEmbeddings.
C17_ProviderFailureWritesNothing ==
    /\ [](providerError # <<>> =>
            /\ initPc \in {"failed", "skipped"}
            /\ initError = providerError
            /\ builtDocs = <<>>)
    /\ [][WritesNothing]_vars

\* The provider failed on the second document of a build, after it had
\* answered for the first, while the file of a former build was on disk.
C17_Witness ==
    /\ initPc = "failed"
    /\ Len(initDocs) = 2
    /\ Len(provided) = 1
    /\ initError = providerError
    /\ embeddingsFile.exists
    /\ lastSaved # <<>>
    /\ JSONParse(embeddingsFile.data).ok
    /\ JSONParse(embeddingsFile.data).value.documents = lastSaved[1]

\* C18: loadEmbeddings throws the index-not-found error exactly when the
\* embeddings file does not exist; any other failure of the read or of the
\* parse is thrown as the error that was raised, and a load returns a store
\* only when the file holds one.
C18_NotFoundOnlyWhenNoFile ==
    loadPc # "idle" =>
        /\ (loadResult.threw /\ loadResult.error = IndexNotFound)
              <=> ~embeddingsFile.exists
        /\ (loadResult.threw /\ embeddingsFile.exists) =>
              /\ loadResult.error = loadResult.raised
              /\ loadResult.raised \in {SyntaxError, FsError("EACCES")}
        /\ ~loadResult.threw =>
              /\ JSONParse(embeddingsFile.data).ok
              /\ loadResult.value = JSONParse(embeddingsFile.data).value

\* The file exists and is not a store: the load threw the SyntaxError.
C18_Witness ==
    /\ loadPc = "threw"
    /\ embeddingsFile.exists
    /\ ~JSONParse(embeddingsFile.data).ok
    /\ loadResult.raised = SyntaxError
    /\ loadResult.error = SyntaxError

\* C19: after any number of saveEmbeddings calls the file holds the store of
\* the last one and nothing else, and loadEmbeddings returns the documents
\* of the last save: the same paths in the same order, the same chunks with
\* the same contents and vectors.  A load fails only when the file system
\* refuses the read.
C19_LoadReturnsLastSave ==
    lastSaved # <<>> =>
        /\ embeddingsFile.exists
        /\ JSONParse(embeddingsFile.data).ok
        /\ JSONParse(embeddingsFile.data).value.documents = lastSaved[1]
        /\ loadPc # "idle" =>
            IF loadResult.threw
            THEN loadResult.raised = FsError("EACCES")
            ELSE /\ loadResult.value.documents = lastSaved[1]
                 /\ loadResult.value.model = EMBEDDING_MODEL
                 /\ loadResult.value.generatedAt \in Timestamps

\* A save of two documents replaced the store of other documents, and the
\* load that followed returned the two documents.
C19_Witness ==
    /\ loadPc = "returned"
    /\ replaced
    /\ Len(lastSaved[1]) = 2
    /\ Len(lastSaved[1][1].chunks) = 3
    /\ loadResult.value.documents = lastSaved[1]

(***************************************************************************)
(* The defaults of the search, as README.md documents them.                *)
(***************************************************************************)

\* C20: when .janusdoc.json gives no search.topN and no search.threshold,
\* run passes both to searchSimilarDocs as undefined, and the search that
\* returned used topN = 15 and threshold = 0.15 (the rational 3/20).
C20_ReadmeDefaults ==
    (searchPc = "returned" /\ topNArg = <<>> /\ thresholdArg = <<>>) =>
        /\ topN = 15
        /\ threshold = <<3, 20>>
        /\ searchResults = TakeTopN(deduped, 15)
        /\ kept = ScoreChunks(queryEmbedding, embeddedDocs, <<3, 20>>)

(***************************************************************************)
(* More properties of searchSimilarDocs.                                   *)
(***************************************************************************)

\* A step of a search that is running leaves the arguments as they were.
SearchKeepsInputs ==
    searchPc = "call" =>
        /\ queryEmbedding' = queryEmbedding
        /\ embeddedDocs' = embeddedDocs

\* C21: a search leaves its inputs as they were: the step that returns or
\* throws changes neither the query vector nor the index, and through any
\* sequence of searches the index (documents, chunks, contents, vectors, in
\* order) stays what it was before the first one.
C21_InputsUnchanged ==
    /\ [][SearchKeepsInputs]_vars
    /\ [][embeddedDocs' = embeddedDocs]_vars

\* A search over an index of two documents has thrown on a vector of another
\* length, and the index is as it was.
C21_Witness ==
    /\ searchPc = "threw"
    /\ Len(embeddedDocs) = 2
    /\ queryEmbedding = <<-1, 1>>
    /\ \E i \in 1..ChunkCount : Len(AllChunks(embeddedDocs)[i].embedding) = 1

\* C22: when some stored chunk vector has a length other than the query's,
\* wherever it sits in the index, searchSimilarDocs throws the error of
\* cosineSimilarity and returns nothing; a search that returns had no such
\* chunk.
C22_MismatchThrows ==
    searchPc # "call" =>
        /\ ~AllComparable <=> searchPc = "threw"
        /\ searchPc = "threw" => (searchResults = <<>> /\ kept = <<>>)
        /\ ~AllComparable =>
              \E i \in 1..ChunkCount :
                  cosineSimilarity(queryEmbedding,
                                   AllChunks(embeddedDocs)[i].embedding)
                      = DimensionMismatch

\* The last chunk of the index has another length, and the chunk before it,
\* in another document, has similarity 1 and would have passed the threshold.
C22_Witness ==
    /\ searchPc = "threw"
    /\ Len(embeddedDocs) = 2
    /\ ChunkCount >= 2
    /\ Len(AllChunks(embeddedDocs)[ChunkCount].embedding) # Len(queryEmbedding)
    /\ cosineSimilarity(queryEmbedding, AllChunks(embeddedDocs)[1].embedding)
          = [threw |-> FALSE, value |-> One]
    /\ SimGe(One, Rational(threshold))
    /\ topN >= 1

\* The paths that have a chunk of similarity >= threshold, and the best
\* similarity of the chunks of a path.
QualifyingPaths ==
    {AllChunks(embeddedDocs)[i].path : i \in
        {j \in 1..ChunkCount : SimGe(SimilarityAt(j), Rational(threshold))}}

BestOf(p) ==
    LET mine == {i \in 1..ChunkCount : AllChunks(embeddedDocs)[i].path = p}
    IN  SimilarityAt(CHOOSE i \in mine :
                         \A j \in mine : SimGe(SimilarityAt(i), SimilarityAt(j)))

ResultPaths == {searchResults[k].path : k \in 1..Len(searchResults)}

\* C28: for topN >= 0 the result has min(topN, D) entries, D being the
\* number of paths with a chunk of similarity >= threshold; each entry is one
\* of these paths with its best similarity, the entries descend, and no path
\* left out has a best similarity above that of a path returned.  With
\* D <= topN every such path is returned.
C28_TopOfRanking ==
    (searchPc = "returned" /\ topN >= 0) =>
        /\ Len(searchResults) = Min(topN, Cardinality(QualifyingPaths))
        /\ ResultPaths \subseteq QualifyingPaths
        /\ Cardinality(ResultPaths) = Len(searchResults)
        /\ \A k \in 1..Len(searchResults) :
               searchResults[k].similarity = BestOf(searchResults[k].path)
        /\ \A k \in 1..(Len(searchResults) - 1) :
               SimGe(searchResults[k].similarity, searchResults[k + 1].similarity)
        /\ \A p \in QualifyingPaths \ ResultPaths :
               \A k \in 1..Len(searchResults) :
                   ~SimGt(BestOf(p), searchResults[k].similarity)
        /\ Cardinality(QualifyingPaths) <= topN => ResultPaths = QualifyingPaths

\* Two paths qualify and topN is 1: the path that comes second in the index
\* has the better chunk and is the one returned.
C28_Witness ==
    /\ searchPc = "returned"
    /\ topN = 1
    /\ Cardinality(QualifyingPaths) = 2
    /\ Len(searchResults) = 1
    /\ searchResults[1].path = embeddedDocs[2].path
    /\ SimGt(BestOf(embeddedDocs[2].path), BestOf(embeddedDocs[1].path))

(***************************************************************************)
(* More properties of chunkText.                                           *)
(***************************************************************************)

\* C29: for 0 <= overlap < chunkSize, chunkText returns at least one
\* segment.  A text that is not split is returned whole.  A text that is
\* split is covered by its segments in order and without a gap: the first
\* starts at word 0, each next one starts no later than the one before it
\* ended and after it started, the last ends at the last word, every word
\* position lies in a segment, and a segment is the words of its window.
C29_SegmentsCoverText ==
    (chunkPc = "returned" /\ 0 <= overlap /\ overlap < chunkSize) =>
        /\ Len(chunks) >= 1
        /\ ~SplitsText => chunks = <<text>>
        /\ SplitsText =>
            /\ Len(windows) = Len(chunks)
            /\ windows[1][1] = 0
            /\ windows[Len(windows)][2] = Len(words)
            /\ \A k \in 1..(Len(windows) - 1) :
                   /\ windows[k + 1][1] <= windows[k][2]
                   /\ windows[k + 1][1] > windows[k][1]
            /\ \A w \in 0..(Len(words) - 1) :
                   \E k \in 1..Len(windows) :
                       windows[k][1] <= w /\ w < windows[k][2]
            /\ \A k \in 1..Len(windows) :
                   /\ windows[k][1] < windows[k][2]
                   /\ chunks[k] = JoinSpace(SubSeq(SplitWhitespace(text),
                                                   windows[k][1] + 1, windows[k][2]))

\* A text of three words with chunkSize 2 and overlap 1 came back in two
\* segments that share the middle word.
C29_Witness ==
    /\ chunkPc = "returned"
    /\ chunkSize = 2
    /\ overlap = 1
    /\ Len(SplitWhitespace(text)) = 3
    /\ windows = <<<<0, 2>>, <<1, 3>>>>
    /\ Len(chunks) = 2

(***************************************************************************)
(* Properties of filterCodeFiles.                                          *)
(***************************************************************************)

\* The name of the file: what follows the last "/" of the path.
Basename(path) ==
    LET slashes == {i \in 1..Len(path) : path[i] = "/"}
    IN  IF slashes = {} THEN path
        ELSE SubSeq(path, 1 + (CHOOSE i \in slashes : \A j \in slashes : j <= i),
                    Len(path))

\* The final extension of a path, in lower case: the last dot of the file's
\* name with the characters after it, <<>> when there is no dot or nothing
\* after it.
FinalExtension(path) ==
    LET name == Basename(path)
        lowered == [i \in 1..Len(name) |->
                       IF name[i] \in DOMAIN LowerCase THEN LowerCase[name[i]]
                                                       ELSE name[i]]
        dots == {i \in 1..Len(lowered) : lowered[i] = "."}
    IN  IF dots = {} \/ lowered[Len(lowered)] = "." THEN <<>>
        ELSE SubSeq(lowered, CHOOSE i \in dots : \A j \in dots : j <= i,
                    Len(lowered))

CodeExtensionSet == {codeExtensions[k] : k \in 1..Len(codeExtensions)}
DocExtensionSet == {docExtensions[k] : k \in 1..Len(docExtensions)}

\* C23: filterCodeFiles returns the input files whose final extension, in
\* lower case, is in the code-extension list, in the order of the input and
\* as they were given; it returns no file with a documentation extension or
\* without an extension, and no file that filterDocFiles returns.
C23_CodeFilesOnly ==
    codeFiltered # <<>> =>
        /\ codeFiltered[1] =
              SelectSeq(changedFiles,
                        LAMBDA f : FinalExtension(f.path) \in CodeExtensionSet)
        /\ \A k \in 1..Len(codeFiltered[1]) :
              /\ FinalExtension(codeFiltered[1][k].path) # <<>>
              /\ FinalExtension(codeFiltered[1][k].path) \notin DocExtensionSet
        /\ docFiltered # <<>> =>
              \A k \in 1..Len(codeFiltered[1]) :
                  \A m \in 1..Len(docFiltered[1]) :
                      codeFiltered[1][k] # docFiltered[1][m]

\* Of A.TS, a.md and a.md.ts, in this order, filterCodeFiles returned the
\* first and the last, and filterDocFiles the one between them.
C23_Witness ==
    /\ Len(changedFiles) = 3
    /\ changedFiles[1].path = <<"A", ".", "T", "S">>
    /\ changedFiles[2].path = <<"a", ".", "m", "d">>
    /\ changedFiles[3].path = <<"a", ".", "m", "d", ".", "t", "s">>
    /\ codeFiltered = <<<<changedFiles[1], changedFiles[3]>>>>
    /\ docFiltered = <<<<changedFiles[2]>>>>

(***************************************************************************)
(* Properties of analyzeChanges.                                           *)
(***************************************************************************)

\* C27: every suggestion analyzeChanges returns has the path of one of the
\* documents passed in, whether the model's answer fitted the schema or the
\* suggestions were taken from a rejected value; the suggestions returned
\* are those of the answer that have such a path, in order; and with no
\* changed file or no document the result is empty and the model was not
\* called.
C27_SuggestionsForGivenDocs ==
    anPc = "returned" =>
        /\ \A k \in 1..Len(anResult) :
               \E d \in 1..Len(anDocs) : anResult[k].docPath = anDocs[d].path
        /\ (Len(anChangedFiles) = 0 \/ Len(anDocs) = 0) =>
               (anAnswer = <<>> /\ anResult = <<>>)
        /\ anAnswer # <<>> =>
               anResult = SelectSeq(anAnswer[1].suggestions,
                              LAMBDA sg : /\ "docPath" \in DOMAIN sg
                                          /\ \E d \in 1..Len(anDocs) :
                                                 sg.docPath = anDocs[d].path)

\* The rejected value held a suggestion for an invented path and one for a
\* document passed in: the one for the document was returned.
C27_Witness ==
    /\ anPc = "returned"
    /\ anAnswer # <<>>
    /\ anAnswer[1].kind = "invalid"
    /\ Len(anAnswer[1].suggestions) = 2
    /\ anAnswer[1].suggestions[1] = [docPath |-> "invented.md"]
    /\ Len(anResult) = 1
    /\ anResult[1] = anAnswer[1].suggestions[2]

(***************************************************************************)
(* Properties of runCommand.                                               *)
(***************************************************************************)
Called(name) == \E i \in 1..Len(calls) : calls[i] = name
CountCalls(name) == Cardinality({i \in 1..Len(calls) : calls[i] = name})
IsPrefix(s, t) == Len(s) <= Len(t) /\ \A i \in 1..Len(s) : s[i] = t[i]

\* The run ended normally after its first n stages, with no analysis by the
\* language model and no comment.
StoppedAfter(n) ==
    /\ runPc = "done"
    /\ Len(stagesRun) = n
    /\ ~Called("analyzeChanges")
    /\ ~Called("upsertPRComment")

\* C24: the stages that have run are the first ones of loadContext,
\* connectGitHub, getChanges, scanDocs, findRelevantDocs, analyze,
\* postResults, in that order, and the stage to run next is the one after
\* them; once getChanges has found no code file, scanDocs no document, or
\* findRelevantDocs no relevant document, the run is over without an error
\* and no later stage has run: the model was not asked and nothing posted.
C24_StagesInOrder ==
    /\ IsPrefix(stagesRun, StageOrder)
    /\ runPc \notin {"done", "threw"} => runPc = StageOrder[Len(stagesRun) + 1]
    /\ (Len(stagesRun) >= 3 /\ runCodeFiles = <<>>) => StoppedAfter(3)
    /\ (Len(stagesRun) >= 4 /\ allDocs = <<>>) => StoppedAfter(4)
    /\ (Len(stagesRun) >= 5 /\ relevantDocs = <<>> /\ runPc # "threw")
           => StoppedAfter(5)
    /\ (runPc = "done" /\ Len(stagesRun) < Len(StageOrder))
           => (runCodeFiles = <<>> \/ allDocs = <<>> \/ relevantDocs = <<>>)

\* The index was searched and none of the documents it named was relevant or
\* scanned: the run ended after findRelevantDocs.
C24_Witness ==
    /\ runPc = "done"
    /\ stagesRun = SubSeq(StageOrder, 1, 5)
    /\ runSearch # <<>>
    /\ relevantDocs = <<>>
    /\ runCodeFiles # <<>>
    /\ allDocs # <<>>

\* The documents of the run have reached analysis.
PassedToAnalysis == runPc = "analyze" \/ Len(stagesRun) >= 6

\* The topN the run searches with.
RunTopN ==
    IF runConfig[1].search = <<>> THEN DEFAULT_TOP_N
    ELSE TopNOf(runConfig[1].search[1].topN)

\* The paths the search returned that are paths of scanned documents, in the
\* order of the results.
ScannedResultPaths ==
    LET paths == [i \in 1..Len(runSearch[1]) |-> runSearch[1][i].path]
    IN  SelectSeq(paths, LAMBDA p : \E d \in 1..Len(allDocs) : allDocs[d].path = p)

\* C25, as corrected: the documents passed to analysis are scanned documents,
\* none twice.  With no embeddings file they are all scanned documents and
\* nothing was summarized, embedded, loaded or searched.  With an embeddings
\* file they are the scanned documents of the paths the search returned, in
\* the order of the results, so no more than the results; and no more than
\* topN when topN is not negative.
C25_RelevantDocsFromCorpus ==
    PassedToAnalysis =>
        /\ \A i \in 1..Len(relevantDocs) :
               \E d \in 1..Len(allDocs) : relevantDocs[i] = allDocs[d]
        /\ \A i, j \in 1..Len(relevantDocs) :
               i # j => relevantDocs[i] # relevantDocs[j]
        /\ ~embeddingsExist(embeddingsFile) =>
               /\ relevantDocs = allDocs
               /\ ~Called("summarizeCodeChanges")
               /\ ~Called("generateEmbedding")
               /\ ~Called("loadEmbeddings")
               /\ ~Called("searchSimilarDocs")
        /\ embeddingsExist(embeddingsFile) =>
               /\ runSearch # <<>>
               /\ Len(relevantDocs) = Len(ScannedResultPaths)
               /\ \A i \in 1..Len(relevantDocs) :
                      relevantDocs[i].path = ScannedResultPaths[i]
               /\ Len(relevantDocs) <= Len(runSearch[1])
               /\ RunTopN >= 0 => Len(relevantDocs) <= RunTopN

\* Both scanned documents were passed to analysis in the order of the search
\* results, which is not the order of the scan.
C25_Witness ==
    /\ PassedToAnalysis
    /\ runSearch # <<>>
    /\ Len(relevantDocs) = 2
    /\ relevantDocs # allDocs

\* C25 as the specification states it: with an embeddings file, at most topN
\* documents are passed to analysis.
C25_AtMostTopN ==
    (PassedToAnalysis /\ embeddingsExist(embeddingsFile))
        => Len(relevantDocs) <= RunTopN

\* C26: upsertPRComment is called at most once in a run, and only in a run
\* that is not a dry run, after the analysis has returned, with at least one
\* suggestion; in a dry run it is never called.
C26_CommentAtMostOnce ==
    /\ CountCalls("upsertPRComment") <= 1
    /\ Called("upsertPRComment") =>
           /\ ~dryRun
           /\ Len(stagesRun) = Len(StageOrder)
           /\ Called("analyzeChanges")
           /\ Len(runSuggestions) > 0
    /\ dryRun => ~Called("upsertPRComment")

\* A run that is not a dry run posted its one comment and ended.
C26_Witness ==
    /\ runPc = "done"
    /\ ~dryRun
    /\ CountCalls("upsertPRComment") = 1
    /\ Len(runSuggestions) > 0

\* C30: after an init that skipped the embeddings on a missing API key, a run
\* that has gone through findRelevantDocs has not loaded or searched an index
\* and, unless it failed, found all scanned documents relevant.
C30_SkippedInitDisablesSearch ==
    (initPc = "skipped" /\ Len(stagesRun) >= 5) =>
        /\ ~Called("loadEmbeddings")
        /\ ~Called("searchSimilarDocs")
        /\ runPc # "threw" => relevantDocs = allDocs
====
